---------------------------- MODULE Spec2Model ----------------------------
(***************************************************************************)
(* A model of src/rebalancer.py: the target portfolio builder              *)
(* (TargetAssetclass, TargetPortfolio) and one run of the Rebalancer       *)
(* constructor (_identify_buys, _identify_sells, _identify_buy_amounts).   *)
(*                                                                         *)
(* Python's None is modelled by NONE for a security and NoBadness for a    *)
(* badness score.  Currency amounts are exact rationals <<num, den>>; the  *)
(* floating-point rounding of numpy is not modelled.  A rational with      *)
(* denominator 0 stands for numpy's nan.                                   *)
(***************************************************************************)
EXTENDS Integers, Sequences, FiniteSets, TLC

VARIABLES
    \* ---- TargetPortfolio
    target_assetclasses,  \* TargetPortfolio._target_assetclasses (insertion-ordered dict)
    validated,            \* TargetPortfolio._validated
    tp_call,              \* the last TargetPortfolio method called
    tp_raised,            \* the exception it raised, or "ok"
    tp_result,            \* what it returned: <<value>>, or <<>> for nothing
    validations,          \* how many calls of validate() have succeeded
    \* ---- Account (the snapshot handed to the Rebalancer)
    df_lots,              \* Account.df_lots: sequence of lots, position_lot_id = index
    recent_trades,        \* Account.recent_trades: [bought, sold]
    cash,                 \* Account.cash
    \* ---- Rebalancer
    MAX_LOSS_TO_FORGO,
    MAX_GAIN_TO_SELL,
    forced_buys,          \* the caller's dict, which __init__ rewrites in place
    self_forced_buys,     \* self._forced_buys ("unset" until stored)
    buys,                 \* self._buys ("unset" until stored)
    sells,                \* the sells dict of _identify_sells / self._sells
    price_lookups,        \* symbols whose current price was fetched
    pos_i,                \* index of the position pass 2 is looking at
    gaining_lots,         \* pass 2: the sorted gaining lots of that position
    lots_to_sell,         \* pass 2: the loop counter
    solver,               \* the locals of _identify_buy_amounts
    optimized,            \* self._optimized
    raised,               \* the exception that ended the run, or "none"
    pc,                   \* where the constructor is
    \* ---- Rebalancer.rebalance
    rb_pc,                \* where rebalance() is
    rb_raised,            \* the exception that ended it, or "none"
    rb_i,                 \* the index of the loop it is in
    rb_error,             \* its local flag error
    orders,               \* the calls of execute_order it has made, in order
    \* ---- EtradeConnection.execute_order
    eo_args,              \* the arguments of the last call (<<>> before any)
    eo_requests,          \* the requests that call sent to the API, in order
    eo_raised,            \* the exception it raised, or "none"
    eo_result,            \* the dict it returned (<<>> if it raised)
    held_preview,         \* the preview_result the caller holds (<<>> if none)
    previewed_order       \* the order that preview was obtained for (<<>> if none)

tpvars  == <<target_assetclasses, validated, tp_call, tp_raised, tp_result,
             validations>>
accvars == <<df_lots, recent_trades, cash>>
parvars == <<MAX_LOSS_TO_FORGO, MAX_GAIN_TO_SELL>>
runvars == <<forced_buys, self_forced_buys, buys, sells, price_lookups, pos_i,
             gaining_lots, lots_to_sell, solver, optimized, raised, pc>>
rbvars  == <<rb_pc, rb_raised, rb_i, rb_error, orders>>
eovars  == <<eo_args, eo_requests, eo_raised, eo_result, held_preview,
             previewed_order>>
tradevars == <<rbvars, eovars>>
vars    == <<tpvars, accvars, parvars, runvars, tradevars>>

----------------------------------------------------------------------------
(* Program constants *)

CASH_NAME  == "Cash"
OTHER_NAME == "Other"
NONE       == "NONE"
NoBadness  == 0
ITERATION_LIMIT == 1000
TOLERANCE_PERCENT == 2

(* Bounds of the model *)

MaxLots == 3
SpinCap == 2
\* validate() is called until it has succeeded this many times
MaxValidations == 2

----------------------------------------------------------------------------
(* Generic helpers *)

Range(s) == { s[i] : i \in DOMAIN s }

RECURSIVE SumOver(_, _)
SumOver(S, f) ==
    IF S = {} THEN 0
    ELSE LET e == CHOOSE e \in S : TRUE IN f[e] + SumOver(S \ {e}, f)

RECURSIVE SumSeq(_)
SumSeq(s) == IF s = <<>> THEN 0 ELSE Head(s) + SumSeq(Tail(s))

Abs(n) == IF n < 0 THEN -n ELSE n

\* s.index(e): the first index of e in s
IndexOf(s, e) == CHOOSE i \in DOMAIN s : s[i] = e /\ \A j \in 1..(i-1) : s[j] # e

----------------------------------------------------------------------------
(* Exact rationals <<num, den>>, den > 0 in lowest terms; den = 0 is nan *)

RECURSIVE GCD(_, _)
GCD(a, b) == IF b = 0 THEN a ELSE GCD(b, a % b)

NaN == <<0, 0>>
IsNaN(r) == r[2] = 0

Norm(n, d) ==
    IF d = 0 THEN NaN
    ELSE LET g == GCD(Abs(n), Abs(d))
             s == IF d < 0 THEN -1 ELSE 1
         IN <<(s * n) \div g, (s * d) \div g>>

R(n)       == <<n, 1>>
RAdd(a, b) == IF IsNaN(a) \/ IsNaN(b) THEN NaN ELSE Norm(a[1]*b[2] + b[1]*a[2], a[2]*b[2])
RSub(a, b) == IF IsNaN(a) \/ IsNaN(b) THEN NaN ELSE Norm(a[1]*b[2] - b[1]*a[2], a[2]*b[2])
RMul(a, b) == IF IsNaN(a) \/ IsNaN(b) THEN NaN ELSE Norm(a[1]*b[1], a[2]*b[2])
RDiv(a, b) == IF IsNaN(a) \/ IsNaN(b) THEN NaN ELSE Norm(a[1]*b[2], a[2]*b[1])
\* comparisons with nan are False, as in numpy
RLt(a, b)  == ~IsNaN(a) /\ ~IsNaN(b) /\ a[1]*b[2] < b[1]*a[2]
RLe(a, b)  == ~IsNaN(a) /\ ~IsNaN(b) /\ a[1]*b[2] <= b[1]*a[2]

RECURSIVE RSumOver(_, _)
RSumOver(S, f) ==
    IF S = {} THEN R(0)
    ELSE LET e == CHOOSE e \in S : TRUE IN RAdd(f[e], RSumOver(S \ {e}, f))

----------------------------------------------------------------------------
(* TargetAssetclass *)

\* str.upper() on the tickers the model uses
Upper(s) == CASE s = "a1" -> "A1"
              [] s = "b1" -> "B1"
              [] OTHER    -> s

\* TargetAssetclass.__init__ without the test on the reserved names
AssetclassCheckAnyName(target, name, securities, badness_scores) ==
    LET unique_scores == Range(badness_scores) \ {NoBadness} IN
    IF ~(0 < target /\ target <= 100) THEN "AssertionError"
    ELSE IF Len(badness_scores) # Len(securities) THEN "AssertionError"
    ELSE IF \E i \in DOMAIN badness_scores :
                badness_scores[i] # NoBadness /\ badness_scores[i] < 1
         THEN "AssertionError"
    ELSE IF ~(\E i \in DOMAIN badness_scores : badness_scores[i] = 1)
         THEN "AssertionError"
    ELSE IF \E u \in unique_scores :
                /\ \E v \in unique_scores : v > u
                /\ (u + 1) \notin unique_scores
         THEN "AssertionError"
    ELSE "ok"

\* TargetAssetclass.__init__: the exception it raises, or "ok"
AssetclassCheck(target, name, securities, badness_scores) ==
    LET unique_scores == Range(badness_scores) \ {NoBadness} IN
    IF ~(0 < target /\ target <= 100) THEN "AssertionError"
    ELSE IF Len(badness_scores) # Len(securities) THEN "AssertionError"
    ELSE IF \E i \in DOMAIN badness_scores :
                badness_scores[i] # NoBadness /\ badness_scores[i] < 1
         THEN "AssertionError"
    ELSE IF ~(\E i \in DOMAIN badness_scores : badness_scores[i] = 1)
         THEN "AssertionError"
    ELSE IF \E u \in unique_scores :
                /\ \E v \in unique_scores : v > u
                /\ (u + 1) \notin unique_scores
         THEN "AssertionError"
    ELSE IF name \in {OTHER_NAME, CASH_NAME} THEN "ValidationError"
    ELSE "ok"

\* The object __init__ builds
NewAssetclass(target, name, securities, badness_scores) ==
    [ target         |-> target,
      name           |-> name,
      securities     |-> [i \in DOMAIN securities |-> Upper(securities[i])],
      badness_scores |-> badness_scores ]

\* TargetAssetclass.securities(badness_score): badness_score None selects all
RECURSIVE SecuritiesFrom(_, _, _)
SecuritiesFrom(a, badness_score, i) ==
    IF i > Len(a.securities) THEN <<>>
    ELSE (IF badness_score = NoBadness \/ a.badness_scores[i] = badness_score
          THEN <<a.securities[i]>> ELSE <<>>)
         \o SecuritiesFrom(a, badness_score, i + 1)

Securities(a, badness_score) == SecuritiesFrom(a, badness_score, 1)

----------------------------------------------------------------------------
(* TargetPortfolio *)

ClassNames(tp) == { tp[i].name : i \in DOMAIN tp }

ClassNamed(tp, n) == tp[CHOOSE i \in DOMAIN tp : tp[i].name = n]

\* validate() with the assert on the targets alone
ValidateCheckTargetsOnly(tp) ==
    IF SumSeq([i \in DOMAIN tp |-> tp[i].target]) # 100 THEN "AssertionError"
    ELSE "ok"

\* validate(): the exception it raises, or "ok"
ValidateCheck(tp) ==
    IF SumSeq([i \in DOMAIN tp |-> tp[i].target]) # 100 THEN "AssertionError"
    ELSE IF \E i \in DOMAIN tp : \E j \in 1..(i-1) :
                Range(Securities(tp[i], NoBadness))
                    \cap Range(Securities(tp[j], NoBadness)) # {}
         THEN "TypeError"    \* raise of a str
    ELSE "ok"

\* find_security(symbol)
FindSecurity(tp, symbol) ==
    LET hits == { i \in DOMAIN tp : symbol \in Range(Securities(tp[i], NoBadness)) } IN
    IF hits = {} THEN [assetclass |-> OTHER_NAME, badness |-> NoBadness]
    ELSE LET i == CHOOSE i \in hits : \A j \in hits : i <= j
             a == tp[i]
         IN [ assetclass |-> a.name,
              badness    |-> a.badness_scores[IndexOf(Securities(a, NoBadness), symbol)] ]

----------------------------------------------------------------------------
(* Account: the positions table is derived from the lots (_parse_data) *)

\* The symbols held, in the order of their first lot (df_positions.index)
RECURSIVE PositionsFrom(_, _)
PositionsFrom(lots, i) ==
    IF i > Len(lots) THEN <<>>
    ELSE (IF \E j \in 1..(i-1) : lots[j].symbol = lots[i].symbol
          THEN <<>> ELSE <<lots[i].symbol>>) \o PositionsFrom(lots, i + 1)

Positions(lots) == PositionsFrom(lots, 1)

LotsOf(lots, s) == { i \in DOMAIN lots : lots[i].symbol = s }

\* df_positions.lots_loss: the sum of gain over the lots with gain < 0
LotsLoss(lots, s) ==
    SumOver({ i \in LotsOf(lots, s) : lots[i].gain < 0 }, [i \in DOMAIN lots |-> lots[i].gain])

\* df_positions.lots_gain: the sum of gain over the lots with gain > 0
LotsGain(lots, s) ==
    SumOver({ i \in LotsOf(lots, s) : lots[i].gain > 0 }, [i \in DOMAIN lots |-> lots[i].gain])

\* df_positions.market_value
MarketValue(lots, s) ==
    SumOver(LotsOf(lots, s), [i \in DOMAIN lots |-> lots[i].market_value])

\* df_positions.lots_loss.get(s, 0)
LotsLossGet(lots, s) ==
    IF s \in Range(Positions(lots)) THEN LotsLoss(lots, s) ELSE 0

----------------------------------------------------------------------------
(* Rebalancer.__init__: processing the forced buys *)

\* A caller's entry is [ticker |-> s] (s a ticker or NONE); __init__ rewrites
\* it in place to the dict {'security', 'badness'}
IsRaw(v) == "ticker" \in DOMAIN v

ForcedKeys(fb) == { fb[i].assetclass : i \in DOMAIN fb }

ForcedEntry(fb, a) == fb[CHOOSE i \in DOMAIN fb : fb[i].assetclass = a].value

\* The loop that rewrites every entry and checks none
ProcessForcedUnchecked(tp, is_validated, fb, i) ==
    [fb |-> [j \in DOMAIN fb |->
                [fb[j] EXCEPT !.value =
                    IF fb[j].value.ticker = NONE
                    THEN [security |-> NONE, badness |-> NoBadness]
                    ELSE [security |-> fb[j].value.ticker,
                          badness  |-> FindSecurity(tp, fb[j].value.ticker).badness]]],
     raised |-> "none"]

\* The loop over forced_buys from entry i on: the dict as the loop leaves it,
\* and the exception that ended it
RECURSIVE ProcessForcedFrom(_, _, _, _)
ProcessForcedFrom(tp, is_validated, fb, i) ==
    IF i > Len(fb) THEN [fb |-> fb, raised |-> "none"]
    ELSE IF ~is_validated THEN [fb |-> fb, raised |-> "AssertionError"]
    ELSE IF fb[i].assetclass \notin ClassNames(tp)
         THEN [fb |-> fb, raised |-> "RebalancerError"]
    ELSE IF IsRaw(fb[i].value) /\ fb[i].value.ticker = NONE
         THEN ProcessForcedFrom(tp, is_validated,
                  [fb EXCEPT ![i].value = [security |-> NONE, badness |-> NoBadness]],
                  i + 1)
    ELSE LET security == IF IsRaw(fb[i].value)
                         THEN FindSecurity(tp, fb[i].value.ticker)
                         ELSE [assetclass |-> OTHER_NAME, badness |-> NoBadness]
         IN IF security.assetclass # fb[i].assetclass
            THEN [fb |-> fb, raised |-> "RebalancerError"]
            ELSE ProcessForcedFrom(tp, is_validated,
                     [fb EXCEPT ![i].value = [security |-> fb[i].value.ticker,
                                              badness  |-> security.badness]],
                     i + 1)

----------------------------------------------------------------------------
(* Rebalancer._identify_buys *)

\* The loss of a candidate read from the position alone
CandidateLossOfPosition(s) == LotsLossGet(df_lots, s)

\* The loss _identify_buys compares for candidate s
CandidateLoss(s) ==
    IF s \in recent_trades.bought THEN 0 ELSE LotsLossGet(df_lots, s)

\* buy_options without the test on recent_trades['sold']
RECURSIVE BuyOptionsWithSold(_, _)
BuyOptionsWithSold(secs, i) ==
    IF i > Len(secs) THEN <<>>
    ELSE << <<secs[i], CandidateLoss(secs[i])>> >> \o BuyOptionsWithSold(secs, i + 1)

\* buy_options before sorting: the tier's securities not recently sold
RECURSIVE BuyOptionsFrom(_, _)
BuyOptionsFrom(secs, i) ==
    IF i > Len(secs) THEN <<>>
    ELSE (IF secs[i] \notin recent_trades.sold
          THEN << <<secs[i], CandidateLoss(secs[i])>> >> ELSE <<>>)
         \o BuyOptionsFrom(secs, i + 1)

\* A sort step that puts e before the elements whose key equals its own
InsertBeforeEqual(sorted, e) ==
    LET k == Cardinality({ i \in DOMAIN sorted : -sorted[i][2] < -e[2] })
    IN SubSeq(sorted, 1, k) \o <<e>> \o SubSeq(sorted, k + 1, Len(sorted))

\* One step of a stable sort by key -loss: e goes after every element
\* whose key is <= its own
InsertStable(sorted, e) ==
    LET k == Cardinality({ i \in DOMAIN sorted : -sorted[i][2] <= -e[2] })
    IN SubSeq(sorted, 1, k) \o <<e>> \o SubSeq(sorted, k + 1, Len(sorted))

\* sorted(buy_options, key = lambda x : -x[1])
RECURSIVE SortedFrom(_, _, _)
SortedFrom(opts, i, acc) ==
    IF i > Len(opts) THEN acc
    ELSE SortedFrom(opts, i + 1, InsertStable(acc, opts[i]))

SortedBuyOptions(opts) == SortedFrom(opts, 1, <<>>)

\* The tier loop that settles for no buy when the tiers run out
RECURSIVE FindBuyOrSkip(_, _)
FindBuyOrSkip(a, badness_score) ==
    IF Len(Securities(a, badness_score)) = 0
    THEN [security |-> NONE, badness |-> NoBadness]
    ELSE LET buy_options ==
                 SortedFrom(BuyOptionsFrom(Securities(a, badness_score), 1), 1, <<>>)
         IN IF Len(buy_options) > 0 /\ Abs(buy_options[1][2]) <= MAX_LOSS_TO_FORGO
            THEN [security |-> buy_options[1][1], badness |-> badness_score]
            ELSE FindBuyOrSkip(a, badness_score + 1)

\* The while loop over badness tiers for asset class a, from badness_score
\* on: the buy, or security "unresolved" when the tiers run out
RECURSIVE FindBuyFrom(_, _)
FindBuyFrom(a, badness_score) ==
    IF Len(Securities(a, badness_score)) = 0
    THEN [security |-> "unresolved", badness |-> NoBadness]
    ELSE LET buy_options ==
                 SortedBuyOptions(BuyOptionsFrom(Securities(a, badness_score), 1))
         IN IF Len(buy_options) > 0 /\ Abs(buy_options[1][2]) <= MAX_LOSS_TO_FORGO
            THEN [security |-> buy_options[1][1], badness |-> badness_score]
            ELSE FindBuyFrom(a, badness_score + 1)

\* The choice that looks at no forced buy
ChooseBuyIgnoringForced(a) == FindBuyFrom(a, 1)

\* The choice for one asset class
ChooseBuy(a) ==
    IF a.name \in ForcedKeys(self_forced_buys)
    THEN ForcedEntry(self_forced_buys, a.name)
    ELSE FindBuyFrom(a, 1)

\* The local dict buys after the loop over the asset classes
ChosenBuys ==
    LET tp == target_assetclasses
        resolved == { n \in ClassNames(tp) :
                        ChooseBuy(ClassNamed(tp, n)).security # "unresolved" }
    IN [n \in resolved |-> ChooseBuy(ClassNamed(tp, n))]

\* The external price collaborator (conn.get_current_price)
CurrentPrice(s) ==
    CASE s \in {"A1", "B1", "E1"} -> 3
      [] s \in {"A2", "B2", "E2"} -> 7
      [] OTHER                    -> 4

\* a['current_price'] = ...
WithField(rec, name, val) ==
    [f \in DOMAIN rec \cup {name} |-> IF f = name THEN val ELSE rec[f]]

----------------------------------------------------------------------------
(* Rebalancer._identify_sells *)

\* do_not_sell without the buy securities
DoNotSellBoughtOnly == recent_trades.bought

\* do_not_sell = recent_trades['bought'] + [b['security'] for b in buys]
DoNotSell ==
    recent_trades.bought \cup { buys[a].security : a \in DOMAIN buys }

\* The initial sells dict: one entry per position
EmptySells ==
    [s \in Range(Positions(df_lots)) |->
        [lots |-> <<>>, sell_loss |-> FALSE, sell_gain |-> FALSE]]

\* Pass 1 that keeps the lots whose loss is within MAX_LOSS_TO_FORGO
RECURSIVE Pass1AboveTolerance(_, _)
Pass1AboveTolerance(sl, i) ==
    IF i > Len(df_lots) THEN sl
    ELSE LET row == df_lots[i] IN
         IF row.symbol \notin DoNotSell /\ row.gain < 0 /\ -row.gain > MAX_LOSS_TO_FORGO
         THEN Pass1AboveTolerance(
                [sl EXCEPT ![row.symbol].lots =
                               Append(@, [position_lot_id |-> i,
                                          quantity        |-> row.quantity]),
                           ![row.symbol].sell_loss = TRUE],
                i + 1)
         ELSE Pass1AboveTolerance(sl, i + 1)

\* Pass 1, the loop over df_lots from lot i on
RECURSIVE Pass1From(_, _)
Pass1From(sl, i) ==
    IF i > Len(df_lots) THEN sl
    ELSE LET row == df_lots[i] IN
         IF row.symbol \notin DoNotSell /\ row.gain < 0
         THEN Pass1From(
                [sl EXCEPT ![row.symbol].lots =
                               Append(@, [position_lot_id |-> i,
                                          quantity        |-> row.quantity]),
                           ![row.symbol].sell_loss = TRUE],
                i + 1)
         ELSE Pass1From(sl, i + 1)

\* Pass 2: the test on a position raises TypeError when an integer badness
\* is compared with the None badness of the chosen buy
Pass2Raises(symbol) ==
    LET found == FindSecurity(target_assetclasses, symbol) IN
    /\ symbol \notin DoNotSell
    /\ found.assetclass # OTHER_NAME
    /\ buys[found.assetclass].security # NONE
    /\ found.badness # NoBadness
    /\ buys[found.assetclass].badness = NoBadness

\* The pass 2 test without the test that the class has a buy
Pass2EligibleSkippedToo(symbol) ==
    LET found      == FindSecurity(target_assetclasses, symbol)
        assetclass == found.assetclass
        badness    == found.badness
    IN /\ symbol \notin DoNotSell
       /\ \/ assetclass = OTHER_NAME
          \/ badness = NoBadness
          \/ badness > buys[assetclass].badness

\* Pass 2: the test that selects a position for gain harvesting
Pass2Eligible(symbol) ==
    LET found      == FindSecurity(target_assetclasses, symbol)
        assetclass == found.assetclass
        badness    == found.badness
    IN /\ symbol \notin DoNotSell
       /\ \/ assetclass = OTHER_NAME
          \/ buys[assetclass].security # NONE
       /\ \/ assetclass = OTHER_NAME
          \/ badness = NoBadness
          \/ badness > buys[assetclass].badness

\* The orders sort_values('gain') may give the gaining lots of a symbol (the
\* default sort is not stable, so lots of equal gain come in any order)
GainingLotOrders(symbol) ==
    LET S == { i \in LotsOf(df_lots, symbol) : df_lots[i].gain > 0 }
        n == Cardinality(S)
    IN { q \in [1..n -> S] :
           /\ \A i, j \in 1..n : i # j => q[i] # q[j]
           /\ \A i \in 1..(n-1) : df_lots[q[i]].gain <= df_lots[q[i+1]].gain }

Min(a, b) == IF a < b THEN a ELSE b

\* gaining_lots.iloc[0:k, :].gain.sum()
CumGain(gl, k) ==
    SumOver(1..Min(k, Len(gl)), [j \in DOMAIN gl |-> df_lots[gl[j]].gain])

\* The loop test of pass 2
Pass2LoopTest == CumGain(gaining_lots, lots_to_sell + 1) < MAX_GAIN_TO_SELL

\* sells[symbol]['lots'].extend(gaining_lots.iloc[0:lots_to_sell, :] ...)
ExtendSells(sl, symbol, gl, k) ==
    LET taken == [j \in 1..Min(k, Len(gl)) |->
                     [position_lot_id |-> gl[j],
                      quantity        |-> df_lots[gl[j]].quantity]]
    IN [sl EXCEPT ![symbol].lots = @ \o taken,
                  ![symbol].sell_gain = IF k > 0 THEN TRUE ELSE @]

\* estimated_proceeds of the lots sold of one security (the market values of
\* the lots; the broker's preview, when there is a connection, is taken to
\* agree with it)
EstimatedProceeds(entry) ==
    SumOver({ entry.lots[j].position_lot_id : j \in DOMAIN entry.lots },
            [i \in DOMAIN df_lots |-> df_lots[i].market_value])

\* The filter to the securities sold, then the preview of each
FinalSells(sl) ==
    LET sold == { s \in DOMAIN sl : sl[s].sell_loss \/ sl[s].sell_gain }
    IN [s \in sold |-> WithField(sl[s], "estimated_proceeds", EstimatedProceeds(sl[s]))]

----------------------------------------------------------------------------
(* Rebalancer._get_assetclass_table, as far as _identify_buy_amounts reads it *)

ClassOf(symbol) == FindSecurity(target_assetclasses, symbol).assetclass

\* The index of the grouped table: the asset classes of the positions held
HeldClasses == { ClassOf(s) : s \in Range(Positions(df_lots)) }

\* df.loc[[...] + [OTHER_NAME], :] raises KeyError when no position is "Other"
TableRaises == OTHER_NAME \notin HeldClasses

ClassMarketValue(c) ==
    SumOver({ s \in Range(Positions(df_lots)) : ClassOf(s) = c },
            [s \in Range(Positions(df_lots)) |-> MarketValue(df_lots, s)])

ClassExpectedSales(c) ==
    SumOver({ s \in DOMAIN sells : ClassOf(s) = c },
            [s \in DOMAIN sells |-> sells[s].estimated_proceeds])

ExpectedBalance(c) == ClassMarketValue(c) - ClassExpectedSales(c)

\* The rows with a target_perc: the target asset classes that hold a position
TargetRows == HeldClasses \ {OTHER_NAME}

TargetPerc(c) == ClassNamed(target_assetclasses, c).target

\* expected_sales.sum(): the sales of every row, and the free cash
CashFromSales ==
    SumOver(HeldClasses, [c \in HeldClasses |-> ClassExpectedSales(c)]) + cash

----------------------------------------------------------------------------
(* Rebalancer._identify_buy_amounts *)

IdleSolver ==
    [ rows |-> {}, I |-> {}, N |-> 0, T |-> R(0), chi |-> <<>>, ell |-> <<>>,
      x |-> <<>>, mu |-> <<>>, gamma |-> R(0), J |-> {}, i |-> 0 ]

\* chi as target_perc/100 * T, not scaled to the rows in I
TargetValuesOfWhole(rows, I, T) ==
    [c \in rows |-> RMul(RDiv(R(TargetPerc(c)), R(100)), T)]

\* chi = target_perc / sum(target_perc[I]) * T
TargetValues(rows, I, T) ==
    LET tsum == SumOver(I, [c \in rows |-> TargetPerc(c)])
    IN [c \in rows |-> RMul(RDiv(R(TargetPerc(c)), R(tsum)), T)]

\* mu, gamma and x as the loop finds them: every mu zero, x = chi - gamma/2
\* on the rows in I and ell on the others
FirstGuess(rows, I, N, T, chi, ell) ==
    LET gamma == RMul(RDiv(R(2), R(N)), RSub(RSumOver(I, chi), T))
    IN [ rows |-> rows, I |-> I, N |-> N, T |-> T, chi |-> chi, ell |-> ell,
         x  |-> [c \in rows |-> IF c \in I
                                THEN RSub(chi[c], RMul(<<1, 2>>, gamma))
                                ELSE ell[c]],
         mu |-> [c \in rows |-> R(0)],
         gamma |-> gamma, J |-> {}, i |-> 0 ]

\* The locals up to the start of the while loop
SolverSetup ==
    LET rows == TargetRows
        I    == { c \in rows : buys[c].security # NONE }
        N    == Cardinality(I)
        ell  == [c \in rows |-> R(ExpectedBalance(c))]
        T    == RAdd(RSumOver(I, ell), R(CashFromSales))
        chi  == TargetValues(rows, I, T)
    IN FirstGuess(rows, I, N, T, chi, ell)

\* The loop test that asks for more than one row below its floor
SolverLoopTestTwoBelow(sv) ==
    /\ Cardinality({ c \in sv.I : RLt(sv.x[c], sv.ell[c]) }) > 1
    /\ sv.i < ITERATION_LIMIT

\* The loop test with a cap of one pass
SolverLoopTestCapOne(sv) ==
    /\ \E c \in sv.I : RLt(sv.x[c], sv.ell[c])
    /\ sv.i < 1

\* sum(x[I] < ell[I]) > 0 and i < 1000
SolverLoopTest(sv) ==
    /\ \E c \in sv.I : RLt(sv.x[c], sv.ell[c])
    /\ sv.i < ITERATION_LIMIT

\* J is a mask over the N active rows and indexes arrays over all the rows:
\* numpy raises IndexError when the two lengths differ
MaskMismatch(sv) == sv.N # Cardinality(sv.rows)

\* The loop body with mu_j = 2(ell_j - chi_j), gamma left out
SolverStepMuWithoutGamma(sv) ==
    LET J     == { c \in sv.I : RLe(sv.x[c], sv.ell[c]) }
        Imj   == sv.I \ J
        gamma == RMul(RDiv(R(2), R(sv.N - Cardinality(J))),
                      RSub(RAdd(RSumOver(Imj, sv.chi), RSumOver(J, sv.ell)), sv.T))
        mu    == [c \in sv.rows |->
                     IF c \in J
                     THEN RMul(R(2), RSub(sv.ell[c], sv.chi[c]))
                     ELSE sv.mu[c]]
    IN [sv EXCEPT !.J = J, !.gamma = gamma, !.mu = mu,
                  !.x = [c \in sv.rows |->
                            IF c \in sv.I
                            THEN RAdd(sv.chi[c], RMul(<<1, 2>>, RSub(mu[c], gamma)))
                            ELSE sv.x[c]],
                  !.i = sv.i + 1]

\* The loop body with gamma divided by N, not by N - sum(J)
SolverStepFullN(sv) ==
    LET J     == { c \in sv.I : RLe(sv.x[c], sv.ell[c]) }
        Imj   == sv.I \ J
        gamma == RMul(RDiv(R(2), R(sv.N)),
                      RSub(RAdd(RSumOver(Imj, sv.chi), RSumOver(J, sv.ell)), sv.T))
        mu    == [c \in sv.rows |->
                     IF c \in J
                     THEN RAdd(RMul(R(2), RSub(sv.ell[c], sv.chi[c])), gamma)
                     ELSE sv.mu[c]]
    IN [sv EXCEPT !.J = J, !.gamma = gamma, !.mu = mu,
                  !.x = [c \in sv.rows |->
                            IF c \in sv.I
                            THEN RAdd(sv.chi[c], RMul(<<1, 2>>, RSub(mu[c], gamma)))
                            ELSE sv.x[c]],
                  !.i = sv.i + 1]

\* The loop body with J taken as the rows strictly below their floor
SolverStepStrictJ(sv) ==
    LET J     == { c \in sv.I : RLt(sv.x[c], sv.ell[c]) }
        Imj   == sv.I \ J
        gamma == RMul(RDiv(R(2), R(sv.N - Cardinality(J))),
                      RSub(RAdd(RSumOver(Imj, sv.chi), RSumOver(J, sv.ell)), sv.T))
        mu    == [c \in sv.rows |->
                     IF c \in J
                     THEN RAdd(RMul(R(2), RSub(sv.ell[c], sv.chi[c])), gamma)
                     ELSE sv.mu[c]]
    IN [sv EXCEPT !.J = J, !.gamma = gamma, !.mu = mu,
                  !.x = [c \in sv.rows |->
                            IF c \in sv.I
                            THEN RAdd(sv.chi[c], RMul(<<1, 2>>, RSub(mu[c], gamma)))
                            ELSE sv.x[c]],
                  !.i = sv.i + 1]

\* One pass of the loop body
SolverStep(sv) ==
    LET J     == { c \in sv.I : RLe(sv.x[c], sv.ell[c]) }
        Imj   == sv.I \ J
        gamma == RMul(RDiv(R(2), R(sv.N - Cardinality(J))),
                      RSub(RAdd(RSumOver(Imj, sv.chi), RSumOver(J, sv.ell)), sv.T))
        mu    == [c \in sv.rows |->
                     IF c \in J
                     THEN RAdd(RMul(R(2), RSub(sv.ell[c], sv.chi[c])), gamma)
                     ELSE sv.mu[c]]
    IN [sv EXCEPT !.J = J, !.gamma = gamma, !.mu = mu,
                  !.x = [c \in sv.rows |->
                            IF c \in sv.I
                            THEN RAdd(sv.chi[c], RMul(<<1, 2>>, RSub(mu[c], gamma)))
                            ELSE sv.x[c]],
                  !.i = sv.i + 1]

\* The while loop run to its end from sv; no allocation when it raises
RECURSIVE Solve(_)
Solve(sv) ==
    IF ~SolverLoopTest(sv) THEN sv
    ELSE IF MaskMismatch(sv) THEN IdleSolver
    ELSE Solve(SolverStep(sv))

\* target_buy taken as x itself, the expected balance not deducted
WithTargetBuysOfX(b, sv) ==
    [a \in DOMAIN b |->
        IF a \in sv.rows THEN WithField(b[a], "target_buy", sv.x[a]) ELSE b[a]]

\* self._buys[a]['target_buy'] = x - expected_balance[a], for the table's rows
WithTargetBuys(b, sv) ==
    [a \in DOMAIN b |->
        IF a \in sv.rows
        THEN WithField(b[a], "target_buy", RSub(sv.x[a], sv.ell[a]))
        ELSE b[a]]

\* The dicts of self._buys that came from forced_buys are the caller's own
\* objects: what is written to them shows in forced_buys too
Aliased(fb, b) ==
    [i \in DOMAIN fb |->
        IF fb[i].assetclass \in DOMAIN b
        THEN [fb[i] EXCEPT !.value = b[fb[i].assetclass]]
        ELSE fb[i]]

----------------------------------------------------------------------------
(* Rebalancer._get_assetclass_table, the columns added once optimized *)

\* The rows whose target_buy / current_price is not null
HasBuyQuantity(a) ==
    /\ a \in TargetRows
    /\ "target_buy" \in DOMAIN buys[a]
    /\ "current_price" \in DOMAIN buys[a]
    /\ ~IsNaN(buys[a].target_buy)

\* round() in the place of int()
IntRounded(r) == (2 * r[1] + r[2]) \div (2 * r[2])

\* int(x): the fraction is cut off, towards zero
IntOf(r) == IF r[1] >= 0 THEN r[1] \div r[2] ELSE -((-r[1]) \div r[2])

\* buy_quantity = int(target_buy / current_price)
BuyQuantity(a) == IntOf(RDiv(buys[a].target_buy, R(buys[a].current_price)))

\* expected_buy = buy_quantity * current_price
ExpectedBuy(a) == BuyQuantity(a) * buys[a].current_price

----------------------------------------------------------------------------
(* Rebalancer.rebalance: the loop that places the buy orders *)

\* The column current_price exists when some buy carries a price; the table
\* raises KeyError otherwise
TableHasPrices == \E a \in DOMAIN buys : "current_price" \in DOMAIN buys[a]

\* The asset classes a BUY order is placed for: the rows whose buy_security
\* is not null and whose buy_quantity is not null and above 0
BuyOrders ==
    IF ~TableHasPrices THEN {}
    ELSE { a \in TargetRows :
             /\ buys[a].security # NONE
             /\ HasBuyQuantity(a)
             /\ BuyQuantity(a) > 0 }

----------------------------------------------------------------------------
(* The inputs of a run *)

Lot(symbol, gain, market_value, quantity) ==
    [symbol |-> symbol, gain |-> gain, market_value |-> market_value,
     quantity |-> quantity]

ForcedBuy(assetclass, ticker) ==
    [assetclass |-> assetclass, value |-> [ticker |-> ticker]]

\* The portfolios the runs use are built by the builder's own checks
Buildable(tp) ==
    /\ \A i \in DOMAIN tp :
          AssetclassCheck(tp[i].target, tp[i].name, tp[i].securities,
                          tp[i].badness_scores) = "ok"
    /\ \A i, j \in DOMAIN tp : i # j => tp[i].name # tp[j].name
    /\ ValidateCheck(tp) = "ok"

\* Selection runs: two classes, A with badness tiers [1, 1, 2] and B with a
\* security of null badness; X is in no class
SelPortfolio ==
    << NewAssetclass(60, "A", <<"A1", "A2", "A3">>, <<1, 1, 2>>),
       NewAssetclass(40, "B", <<"B1", "B2">>, <<1, NoBadness>>) >>

SelLotMenu ==
    << Lot("A1", -1, 10, 1), Lot("A1", -3, 20, 2), Lot("A2", -1, 10, 1),
       Lot("A3",  2, 10, 1), Lot("A3",  2, 20, 2),
       Lot("B1",  1, 10, 1), Lot("B2",  2, 10, 1),
       Lot("X",   1, 10, 1), Lot("X",   2, 20, 2), Lot("X",  -2, 10, 1) >>

SelTrades ==
    { [bought |-> {},     sold |-> {}],
      [bought |-> {"A1"}, sold |-> {}],
      [bought |-> {},     sold |-> {"A1"}],
      [bought |-> {"X"},  sold |-> {"A1", "A2"}],
      [bought |-> {"A3"}, sold |-> {"B1"}] }

SelForced ==
    { <<>>,
      <<ForcedBuy("A", "A1")>>,
      <<ForcedBuy("A", NONE)>>,
      <<ForcedBuy("B", "B2")>>,
      <<ForcedBuy("A", NONE), ForcedBuy("B", NONE)>>,
      <<ForcedBuy("A", "A3"), ForcedBuy("B", "A1")>>,
      <<ForcedBuy("Z", NONE)>> }

SelThresholds ==
    { [loss |-> 0, gain |-> 0], [loss |-> 2, gain |-> 3], [loss |-> 0, gain |-> 3] }

\* The lots of the menu at the indices S, in the menu's order
RECURSIVE MenuLots(_, _, _)
MenuLots(menu, S, i) ==
    IF i > Len(menu) THEN <<>>
    ELSE (IF i \in S THEN <<menu[i]>> ELSE <<>>) \o MenuLots(menu, S, i + 1)

SelInputs ==
    { [ tp |-> SelPortfolio, lots |-> MenuLots(SelLotMenu, S, 1), trades |-> t,
        cash |-> 10, forced |-> f, loss |-> th.loss, gain |-> th.gain ] :
      S  \in { S \in SUBSET DOMAIN SelLotMenu : Cardinality(S) <= MaxLots },
      t  \in SelTrades, f \in SelForced, th \in SelThresholds }

\* Allocation runs: three classes 50/30/20, one lot or none of the first
\* security of each, a lot of X, no recent trades
SolPortfolio ==
    << NewAssetclass(50, "A", <<"A1", "A2">>, <<1, 2>>),
       NewAssetclass(30, "B", <<"B1", "B2">>, <<1, 2>>),
       NewAssetclass(20, "E", <<"E1", "E2">>, <<1, 2>>) >>

SolValues == {10, 30, 60}
SolGains  == {0, -1}
SolCash   == {0, 20, 100}

SolLotChoices(symbol) ==
    {<<>>} \cup { <<Lot(symbol, g, m, 1)>> : g \in SolGains, m \in SolValues }

SolForced ==
    { <<>>,
      <<ForcedBuy("E", NONE)>>,
      <<ForcedBuy("E", NONE), ForcedBuy("B", "B2")>> }

SolInputs ==
    { [ tp |-> SolPortfolio, lots |-> a \o b \o e \o <<Lot("X", 0, 10, 1)>>,
        trades |-> [bought |-> {}, sold |-> {}],
        cash |-> c, forced |-> f, loss |-> 0, gain |-> 0 ] :
      a \in SolLotChoices("A1"), b \in SolLotChoices("B1"),
      e \in SolLotChoices("E1"), c \in SolCash, f \in SolForced }

\* A run on two classes 60/40 of a total of 10,000: class A holds 9,000 and
\* keeps it, class B holds 1,000 at a loss and sells it all
ClampPortfolio ==
    << NewAssetclass(60, "A", <<"A1", "A2">>, <<1, 2>>),
       NewAssetclass(40, "B", <<"B1", "B2">>, <<1, 1>>) >>

ClampInputs ==
    { [ tp |-> ClampPortfolio,
        lots |-> << Lot("A1", 0, 9000, 9), Lot("B1", -1, 1000, 1), Lot("X", 0, x, 1) >>,
        trades |-> [bought |-> {}, sold |-> {}],
        cash |-> 0, forced |-> <<>>, loss |-> 0, gain |-> 0 ] : x \in SolValues }

Inputs == { inp \in SelInputs \cup SolInputs \cup ClampInputs : Buildable(inp.tp) }

----------------------------------------------------------------------------
(* One run of Rebalancer.__init__ *)

\* rebalance() has not been called, no order has been sent
NoTrading ==
    /\ rb_pc = "no_call"
    /\ rb_raised = "none"
    /\ rb_i = 0
    /\ rb_error = FALSE
    /\ orders = <<>>
    /\ eo_args = <<>>
    /\ eo_requests = <<>>
    /\ eo_raised = "none"
    /\ eo_result = <<>>
    /\ held_preview = <<>>
    /\ previewed_order = <<>>

Init ==
    \E inp \in Inputs :
        /\ target_assetclasses = inp.tp
        /\ validated = TRUE
        /\ tp_call = "validate"
        /\ tp_raised = "ok"
        /\ tp_result = <<>>
        /\ validations = 1
        /\ df_lots = inp.lots
        /\ recent_trades = inp.trades
        /\ cash = inp.cash
        /\ MAX_LOSS_TO_FORGO = inp.loss
        /\ MAX_GAIN_TO_SELL = inp.gain
        /\ forced_buys = inp.forced
        /\ self_forced_buys = <<>>
        /\ buys = <<>>
        /\ sells = <<>>
        /\ price_lookups = {}
        /\ pos_i = 0
        /\ gaining_lots = <<>>
        /\ lots_to_sell = 0
        /\ solver = IdleSolver
        /\ optimized = FALSE
        /\ raised = "none"
        /\ pc = "init"
        /\ NoTrading

inputvars == <<tpvars, accvars, parvars>>

\* The forced buys are checked and rewritten, then stored
ProcessForcedBuys ==
    /\ pc = "init"
    /\ LET r == ProcessForcedFrom(target_assetclasses, validated, forced_buys, 1) IN
         /\ forced_buys' = r.fb
         /\ raised' = r.raised
         /\ IF r.raised = "none"
            THEN self_forced_buys' = r.fb /\ pc' = "identify_buys"
            ELSE self_forced_buys' = self_forced_buys /\ pc' = "raised"
    /\ UNCHANGED <<inputvars, tradevars, buys, sells, price_lookups, pos_i, gaining_lots,
                   lots_to_sell, solver, optimized>>

\* _identify_buys: a buy for every class, or RebalancerError; then the prices
IdentifyBuys ==
    /\ pc = "identify_buys"
    /\ IF ~validated
       THEN /\ raised' = "AssertionError" /\ pc' = "raised"
            /\ UNCHANGED <<buys, price_lookups, forced_buys, self_forced_buys>>
       ELSE IF DOMAIN ChosenBuys # ClassNames(target_assetclasses)
       THEN /\ raised' = "RebalancerError" /\ pc' = "raised"
            /\ UNCHANGED <<buys, price_lookups, forced_buys, self_forced_buys>>
       ELSE LET priced ==
                    [a \in DOMAIN ChosenBuys |->
                        IF ChosenBuys[a].security # NONE
                        THEN WithField(ChosenBuys[a], "current_price",
                                       CurrentPrice(ChosenBuys[a].security))
                        ELSE ChosenBuys[a]]
            IN /\ buys' = priced
               /\ price_lookups' =
                      { priced[a].security :
                          a \in { b \in DOMAIN priced :
                                    "current_price" \in DOMAIN priced[b] } }
               /\ forced_buys' = Aliased(forced_buys, priced)
               /\ self_forced_buys' = Aliased(self_forced_buys, priced)
               /\ pc' = "identify_sells"
               /\ UNCHANGED raised
    /\ UNCHANGED <<inputvars, tradevars, sells, pos_i, gaining_lots, lots_to_sell, solver,
                   optimized>>

\* _identify_sells, pass 1: every losing lot outside do_not_sell
IdentifySellsPass1 ==
    /\ pc = "identify_sells"
    /\ sells' = Pass1From(EmptySells, 1)
    /\ pos_i' = 1
    /\ pc' = "pass2"
    /\ UNCHANGED <<inputvars, tradevars, forced_buys, self_forced_buys, buys, price_lookups,
                   gaining_lots, lots_to_sell, solver, optimized, raised>>

\* _identify_sells, pass 2: the test on the next position
Pass2Position ==
    /\ pc = "pass2"
    /\ pos_i <= Len(Positions(df_lots))
    /\ LET symbol == Positions(df_lots)[pos_i] IN
         IF Pass2Raises(symbol)
         THEN /\ raised' = "TypeError" /\ pc' = "raised"
              /\ UNCHANGED <<pos_i, gaining_lots, lots_to_sell>>
         ELSE IF Pass2Eligible(symbol)
         THEN /\ gaining_lots' \in GainingLotOrders(symbol)
              /\ lots_to_sell' = 0
              /\ pc' = "pass2_loop"
              /\ UNCHANGED <<pos_i, raised>>
         ELSE /\ pos_i' = pos_i + 1
              /\ UNCHANGED <<pc, gaining_lots, lots_to_sell, raised>>
    /\ UNCHANGED <<inputvars, tradevars, forced_buys, self_forced_buys, buys, sells,
                   price_lookups, solver, optimized>>

\* Pass 2: one pass of the while loop; the break ends the position
Pass2Iterate ==
    /\ pc = "pass2_loop"
    /\ Pass2LoopTest
    /\ lots_to_sell < Len(gaining_lots) + SpinCap
    /\ lots_to_sell' = lots_to_sell + 1
    /\ IF lots_to_sell + 1 = Len(gaining_lots)
       THEN /\ sells' = ExtendSells(sells, Positions(df_lots)[pos_i], gaining_lots,
                                    lots_to_sell + 1)
            /\ pos_i' = pos_i + 1
            /\ pc' = "pass2"
       ELSE UNCHANGED <<sells, pos_i, pc>>
    /\ UNCHANGED <<inputvars, tradevars, forced_buys, self_forced_buys, buys, price_lookups,
                   gaining_lots, solver, optimized, raised>>

\* Pass 2: the loop test fails; the lots counted so far are sold
Pass2Exit ==
    /\ pc = "pass2_loop"
    /\ ~Pass2LoopTest
    /\ sells' = ExtendSells(sells, Positions(df_lots)[pos_i], gaining_lots,
                            lots_to_sell)
    /\ pos_i' = pos_i + 1
    /\ pc' = "pass2"
    /\ UNCHANGED <<inputvars, tradevars, forced_buys, self_forced_buys, buys, price_lookups,
                   gaining_lots, lots_to_sell, solver, optimized, raised>>

\* _identify_sells: the filter, the previews, self._sells
IdentifySellsFinish ==
    /\ pc = "pass2"
    /\ pos_i > Len(Positions(df_lots))
    /\ sells' = FinalSells(sells)
    /\ pc' = "identify_buy_amounts"
    /\ UNCHANGED <<inputvars, tradevars, forced_buys, self_forced_buys, buys, price_lookups,
                   pos_i, gaining_lots, lots_to_sell, solver, optimized, raised>>

\* _identify_buy_amounts up to the while loop
SolverStart ==
    /\ pc = "identify_buy_amounts"
    /\ IF TableRaises
       THEN raised' = "KeyError" /\ pc' = "raised" /\ UNCHANGED solver
       ELSE IF TargetRows = {}
       THEN raised' = "ZeroDivisionError" /\ pc' = "raised" /\ UNCHANGED solver
       ELSE solver' = SolverSetup /\ pc' = "solver_loop" /\ UNCHANGED raised
    /\ UNCHANGED <<inputvars, tradevars, forced_buys, self_forced_buys, buys, sells,
                   price_lookups, pos_i, gaining_lots, lots_to_sell, optimized>>

\* One pass of the solver's while loop
SolverIterate ==
    /\ pc = "solver_loop"
    /\ SolverLoopTest(solver)
    /\ IF MaskMismatch(solver)
       THEN raised' = "IndexError" /\ pc' = "raised" /\ UNCHANGED solver
       ELSE solver' = SolverStep(solver) /\ UNCHANGED <<pc, raised>>
    /\ UNCHANGED <<inputvars, tradevars, forced_buys, self_forced_buys, buys, sells,
                   price_lookups, pos_i, gaining_lots, lots_to_sell, optimized>>

\* The loop is over: the target buys are written, the run is optimized;
\* then _print_status draws the table, which raises KeyError when it finds
\* no current_price column
SolverReturn ==
    /\ pc = "solver_loop"
    /\ ~SolverLoopTest(solver)
    /\ buys' = WithTargetBuys(buys, solver)
    /\ forced_buys' = Aliased(forced_buys, WithTargetBuys(buys, solver))
    /\ self_forced_buys' = Aliased(self_forced_buys, WithTargetBuys(buys, solver))
    /\ optimized' = TRUE
    /\ IF TableHasPrices
       THEN pc' = "done" /\ UNCHANGED raised
       ELSE pc' = "raised" /\ raised' = "KeyError"
    /\ UNCHANGED <<inputvars, tradevars, sells, price_lookups, pos_i, gaining_lots,
                   lots_to_sell, solver>>

Next ==
    \/ ProcessForcedBuys
    \/ IdentifyBuys
    \/ IdentifySellsPass1
    \/ Pass2Position
    \/ Pass2Iterate
    \/ Pass2Exit
    \/ IdentifySellsFinish
    \/ SolverStart
    \/ SolverIterate
    \/ SolverReturn

Spec == Init /\ [][Next]_vars

----------------------------------------------------------------------------
(* Rebalancer.rebalance *)

\* What a call of execute_order can come to: the outcome it returns
\* ('PLACED', 'QUEUED' or None), or an exception, which rebalance() turns
\* into the outcome 'ERROR'
OrderOutcomes == {"PLACED", "QUEUED", NONE, "ERROR"}

\* What the user can type at the prompt
Answers == {"yes", "Yes", ""}

\* for s in sells: the securities sold, in the order of the positions
SellSeq == SelectSeq(Positions(df_lots), LAMBDA s : s \in DOMAIN sells)

\* The asset class names of the runs, in the order groupby sorts them
SortedNames == <<"A", "B", "E", "Z">>

\* The rows of the table whose buy_security is not null, in the table's order
BuyRowSeq ==
    SelectSeq(SortedNames,
              LAMBDA a : a \in TargetRows /\ buys[a].security # NONE)

\* The market is closed, or the user does not confirm: nothing is done
RebalanceStart ==
    /\ pc = "done"
    /\ rb_pc = "no_call"
    /\ \E is_open \in BOOLEAN, answer \in Answers :
          IF ~is_open
          THEN rb_pc' = "raised" /\ rb_raised' = "RebalancerError" /\ UNCHANGED rb_i
          ELSE IF answer # "yes"
          THEN rb_pc' = "returned" /\ UNCHANGED <<rb_raised, rb_i>>
          ELSE rb_pc' = "selling" /\ rb_i' = 1 /\ UNCHANGED rb_raised
    /\ UNCHANGED <<inputvars, runvars, eovars, rb_error, orders>>

\* One pass of the loop over the sells: the order is sent, its result is
\* kept in sells[s] and printed; printing the outcome None raises
\* AttributeError
SellOrder ==
    /\ rb_pc = "selling"
    /\ rb_i <= Len(SellSeq)
    /\ LET s == SellSeq[rb_i] IN
       \E outcome \in OrderOutcomes :
          /\ orders' = Append(orders, [order_action |-> "SELL", symbol |-> s,
                                       outcome |-> outcome])
          /\ sells' = [sells EXCEPT ![s] = WithField(sells[s], "trade_result", outcome)]
          /\ IF outcome = NONE
             THEN /\ rb_pc' = "raised" /\ rb_raised' = "AttributeError"
                  /\ UNCHANGED <<rb_i, rb_error>>
             ELSE /\ rb_error' = (rb_error \/ outcome # "PLACED")
                  /\ rb_i' = rb_i + 1
                  /\ UNCHANGED <<rb_pc, rb_raised>>
    /\ UNCHANGED <<inputvars, eovars, forced_buys, self_forced_buys, buys,
                   price_lookups, pos_i, gaining_lots, lots_to_sell, solver,
                   optimized, raised, pc>>

\* After the loop over the sells: RebalancerError when one was not placed;
\* else the width of the first column is taken from the rows that have a
\* buy_quantity, which fails with AttributeError when there is no such row
\* (apply() on an empty frame gives back a frame; older versions of pandas
\* may give a Series)
SellsDone ==
    /\ rb_pc = "selling"
    /\ rb_i > Len(SellSeq)
    /\ IF rb_error
       THEN rb_pc' = "raised" /\ rb_raised' = "RebalancerError" /\ UNCHANGED <<rb_i, rb_error>>
       ELSE \/ /\ \A a \in TargetRows : ~HasBuyQuantity(a)
               /\ rb_pc' = "raised" /\ rb_raised' = "AttributeError"
               /\ UNCHANGED <<rb_i, rb_error>>
            \/ /\ rb_pc' = "buying" /\ rb_i' = 1 /\ rb_error' = FALSE
               /\ UNCHANGED rb_raised
    /\ UNCHANGED <<inputvars, runvars, eovars, orders>>

\* One pass of the loop over the rows with a buy security: an order is sent
\* when the row's buy_quantity is not null and above 0
BuyOrder ==
    /\ rb_pc = "buying"
    /\ rb_i <= Len(BuyRowSeq)
    /\ LET a == BuyRowSeq[rb_i] IN
       IF a \in BuyOrders
       THEN \E outcome \in OrderOutcomes :
              /\ orders' = Append(orders, [order_action |-> "BUY",
                                           symbol |-> buys[a].security,
                                           outcome |-> outcome])
              /\ buys' = [buys EXCEPT ![a] = WithField(buys[a], "trade_result", outcome)]
              /\ forced_buys' = Aliased(forced_buys, buys')
              /\ self_forced_buys' = Aliased(self_forced_buys, buys')
              /\ IF outcome = NONE
                 THEN /\ rb_pc' = "raised" /\ rb_raised' = "AttributeError"
                      /\ UNCHANGED <<rb_i, rb_error>>
                 ELSE /\ rb_error' = (rb_error \/ outcome # "PLACED")
                      /\ rb_i' = rb_i + 1
                      /\ UNCHANGED <<rb_pc, rb_raised>>
       ELSE /\ rb_i' = rb_i + 1
            /\ UNCHANGED <<orders, buys, forced_buys, self_forced_buys, rb_pc,
                           rb_raised, rb_error>>
    /\ UNCHANGED <<inputvars, eovars, sells, price_lookups, pos_i, gaining_lots,
                   lots_to_sell, solver, optimized, raised, pc>>

\* After the loop over the buys: RebalancerError when one was not placed
BuysDone ==
    /\ rb_pc = "buying"
    /\ rb_i > Len(BuyRowSeq)
    /\ IF rb_error
       THEN rb_pc' = "raised" /\ rb_raised' = "RebalancerError"
       ELSE rb_pc' = "returned" /\ UNCHANGED rb_raised
    /\ UNCHANGED <<inputvars, runvars, eovars, rb_i, rb_error, orders>>

\* The runs that are followed into rebalance(): the clamping runs, and the
\* runs without forced buys and recent trades that harvest gains
RebalanceInputs ==
    { inp \in Inputs :
        \/ inp \in ClampInputs
        \/ /\ inp \in SelInputs
           /\ inp.forced = <<>>
           /\ inp.trades = [bought |-> {}, sold |-> {}]
           /\ inp.loss = 0 /\ inp.gain = 3
           /\ Len(inp.lots) = MaxLots }

InitRB ==
    \E inp \in RebalanceInputs :
        /\ target_assetclasses = inp.tp
        /\ validated = TRUE
        /\ tp_call = "validate"
        /\ tp_raised = "ok"
        /\ tp_result = <<>>
        /\ validations = 1
        /\ df_lots = inp.lots
        /\ recent_trades = inp.trades
        /\ cash = inp.cash
        /\ MAX_LOSS_TO_FORGO = inp.loss
        /\ MAX_GAIN_TO_SELL = inp.gain
        /\ forced_buys = inp.forced
        /\ self_forced_buys = <<>>
        /\ buys = <<>>
        /\ sells = <<>>
        /\ price_lookups = {}
        /\ pos_i = 0
        /\ gaining_lots = <<>>
        /\ lots_to_sell = 0
        /\ solver = IdleSolver
        /\ optimized = FALSE
        /\ raised = "none"
        /\ pc = "init"
        /\ NoTrading

NextRB ==
    \/ Next
    \/ RebalanceStart
    \/ SellOrder
    \/ SellsDone
    \/ BuyOrder
    \/ BuysDone

SpecRB == InitRB /\ [][NextRB]_vars

----------------------------------------------------------------------------
(* Building a TargetPortfolio: add_assetclass and validate *)

TP_Targets    == {0, 40, 60, 110}
TP_Names      == {"A", "B", OTHER_NAME}
TP_Securities == { <<"A1">>, <<"A2">>, <<"a1", "B1">>, <<"B1">> }
TP_Badness    == { <<1>>, <<1, 2>>, <<2>>, <<1, 3>>, <<NoBadness, 1>>, <<1, -1>> }

InitTP ==
    /\ target_assetclasses = <<>>
    /\ validated = FALSE
    /\ tp_call = "__init__"
    /\ tp_raised = "ok"
    /\ tp_result = <<>>
    /\ validations = 0
    /\ df_lots = <<>>
    /\ recent_trades = [bought |-> {}, sold |-> {}]
    /\ cash = 0
    /\ MAX_LOSS_TO_FORGO = 0
    /\ MAX_GAIN_TO_SELL = 0
    /\ forced_buys = <<>>
    /\ self_forced_buys = <<>>
    /\ buys = <<>>
    /\ sells = <<>>
    /\ price_lookups = {}
    /\ pos_i = 0
    /\ gaining_lots = <<>>
    /\ lots_to_sell = 0
    /\ solver = IdleSolver
    /\ optimized = FALSE
    /\ raised = "none"
    /\ pc = "no_rebalancer"
    /\ NoTrading

\* add_assetclass without the assert on self._validated
AddAssetclassWhenValidated(target, name, securities, badness_scores) ==
    /\ tp_call' = "add_assetclass"
    /\ tp_result' = <<>>
    /\ IF AssetclassCheck(target, name, securities, badness_scores) # "ok"
       THEN /\ tp_raised' = AssetclassCheck(target, name, securities, badness_scores)
            /\ UNCHANGED target_assetclasses
       ELSE IF name \in ClassNames(target_assetclasses)
       THEN tp_raised' = "AssertionError" /\ UNCHANGED target_assetclasses
       ELSE /\ target_assetclasses' =
                   Append(target_assetclasses,
                          NewAssetclass(target, name, securities, badness_scores))
            /\ tp_raised' = "ok"
    /\ UNCHANGED <<validated, validations, accvars, parvars, runvars, tradevars>>

\* add_assetclass(target, name, securities, badness_scores)
AddAssetclass(target, name, securities, badness_scores) ==
    /\ tp_call' = "add_assetclass"
    /\ tp_result' = <<>>
    /\ IF validated
       THEN tp_raised' = "AssertionError" /\ UNCHANGED target_assetclasses
       ELSE IF AssetclassCheck(target, name, securities, badness_scores) # "ok"
       THEN /\ tp_raised' = AssetclassCheck(target, name, securities, badness_scores)
            /\ UNCHANGED target_assetclasses
       ELSE IF name \in ClassNames(target_assetclasses)
       THEN tp_raised' = "AssertionError" /\ UNCHANGED target_assetclasses
       ELSE /\ target_assetclasses' =
                   Append(target_assetclasses,
                          NewAssetclass(target, name, securities, badness_scores))
            /\ tp_raised' = "ok"
    /\ UNCHANGED <<validated, validations, accvars, parvars, runvars, tradevars>>

\* validate() that refuses a portfolio that is validated already
ValidateOnce ==
    /\ validations < MaxValidations
    /\ tp_call' = "validate"
    /\ tp_result' = <<>>
    /\ IF validated
       THEN tp_raised' = "AssertionError" /\ UNCHANGED <<validated, validations>>
       ELSE /\ tp_raised' = ValidateCheck(target_assetclasses)
            /\ validated' = (ValidateCheck(target_assetclasses) = "ok")
            /\ validations' = IF ValidateCheck(target_assetclasses) = "ok"
                              THEN validations + 1 ELSE validations
    /\ UNCHANGED <<target_assetclasses, accvars, parvars, runvars, tradevars>>

\* validate()
Validate ==
    /\ validations < MaxValidations
    /\ tp_call' = "validate"
    /\ tp_result' = <<>>
    /\ tp_raised' = ValidateCheck(target_assetclasses)
    /\ validated' = IF ValidateCheck(target_assetclasses) = "ok" THEN TRUE ELSE validated
    /\ validations' = IF ValidateCheck(target_assetclasses) = "ok"
                      THEN validations + 1 ELSE validations
    /\ UNCHANGED <<target_assetclasses, accvars, parvars, runvars, tradevars>>

\* The property target_assetclasses is read
ReadTargetAssetclasses ==
    /\ tp_call' = "target_assetclasses"
    /\ IF validated
       THEN tp_raised' = "ok" /\ tp_result' = <<target_assetclasses>>
       ELSE tp_raised' = "AssertionError" /\ tp_result' = <<>>
    /\ UNCHANGED <<target_assetclasses, validated, validations, accvars, parvars,
                   runvars, tradevars>>

\* find_security(symbol), which reads the property
CallFindSecurity(symbol) ==
    /\ tp_call' = "find_security"
    /\ IF validated
       THEN /\ tp_raised' = "ok"
            /\ tp_result' = <<FindSecurity(target_assetclasses, symbol)>>
       ELSE tp_raised' = "AssertionError" /\ tp_result' = <<>>
    /\ UNCHANGED <<target_assetclasses, validated, validations, accvars, parvars,
                   runvars, tradevars>>

TP_Symbols == {"A1", "B1", "X"}

NextTP ==
    \/ \E target \in TP_Targets, name \in TP_Names,
          securities \in TP_Securities, badness_scores \in TP_Badness :
            AddAssetclass(target, name, securities, badness_scores)
    \/ Validate
    \/ ReadTargetAssetclasses
    \/ \E symbol \in TP_Symbols : CallFindSecurity(symbol)

SpecTP == InitTP /\ [][NextTP]_vars

----------------------------------------------------------------------------
(* EtradeConnection.execute_order *)

\* An argument that may be None is <<>> for None and <<v>> for the value v
None == <<>>
Some(v) == <<v>>

\* str() of the integers the orders use
StrInt(n) == <<"0", "1", "2", "3", "4", "5", "6", "7", "8", "9">>[n + 1]

\* A leaf of the payload dict: its key, the type of its value, the value
Leaf(tag, kind, value) == [tag |-> tag, kind |-> kind, value |-> value]

\* _dict_to_xml: the leaves in the order of the dict under the root tag,
\* each value turned into text by str()
DictToXml(root, leaves) ==
    <<root>> \o
    [i \in DOMAIN leaves |->
        <<leaves[i].tag,
          CASE leaves[i].kind = "int"  -> StrInt(leaves[i].value)
            [] leaves[i].kind = "none" -> "None"
            [] OTHER                   -> leaves[i].value>>]

\* The leaves of order['Instrument']['Lots']
RECURSIVE LotLeaves(_)
LotLeaves(lots) ==
    IF lots = <<>> THEN <<>>
    ELSE << Leaf("Lot.id", "int", lots[1].position_lot_id),
            Leaf("Lot.size", "int", lots[1].quantity) >>
         \o LotLeaves(Tail(lots))

\* order_payload: orderType, clientOrderId and the order
OrderPayload(args, client_order_id) ==
    << Leaf("orderType", "str", "EQ"),
       Leaf("clientOrderId", "str", client_order_id),
       Leaf("allOrNone", "str", "true"),
       Leaf("priceType", "str", args.price_type),
       Leaf("orderTerm", "str", "GOOD_FOR_DAY"),
       Leaf("marketSession", "str", "REGULAR"),
       Leaf("stopPrice", "none", 0),
       IF args.limit_price = None
       THEN Leaf("limitPrice", "none", 0)
       ELSE Leaf("limitPrice", "int", args.limit_price[1]),
       Leaf("securityType", "str", "EQ"),
       Leaf("symbol", "str", args.symbol),
       Leaf("orderAction", "str", args.order_action),
       Leaf("quantityType", "str", "QUANTITY"),
       Leaf("quantity", "int", args.quantity) >>
    \o (IF args.order_action = "SELL" /\ args.lots # None
        THEN LotLeaves(args.lots[1]) ELSE <<>>)

\* sum([i['quantity'] for i in lots])
LotsQuantity(lots) ==
    SumSeq([i \in DOMAIN lots |-> lots[i].quantity])

\* The checks on the arguments, in their order: the exception, or "none"
ValidateInputs(args) ==
    IF args.order_action \notin {"BUY", "SELL"} THEN "ValidationError"
    ELSE IF args.price_type \notin {"MARKET", "LIMIT"} THEN "ValidationError"
    ELSE IF args.price_type = "LIMIT" /\ args.limit_price # None THEN "ValidationError"
    ELSE IF /\ args.order_action = "SELL"
            /\ args.lots # None
            /\ args.quantity # LotsQuantity(args.lots[1])
         THEN "ValidationError"
    ELSE "none"

\* np.abs(expected_cost - estimated_cost)/np.abs(expected_cost) > TOLERANCE
CostOff(expected_cost, estimated_cost) ==
    100 * Abs(expected_cost - estimated_cost) > TOLERANCE_PERCENT * Abs(expected_cost)

\* 1026 in message_codes: PLACED; 1027: QUEUED; else None
OutcomeOf(message_codes) ==
    IF 1026 \in message_codes THEN "PLACED"
    ELSE IF 1027 \in message_codes THEN "QUEUED"
    ELSE NONE

\* Step 3 and step 4: the place request and what comes of it
PlaceOrder(sent, payload, preview_id, place) ==
    LET request == [url  |-> "orders/place",
                    data |-> DictToXml("PlaceOrderRequest",
                                 payload \o <<Leaf("previewId", "str", preview_id)>>)]
    IN IF place.error = "timed out"
       THEN [requests |-> Append(sent, request), raised |-> "OrderPreviewError",
             result |-> <<>>]
       ELSE IF place.error # "none"
       THEN [requests |-> Append(sent, request), raised |-> "ApiQueryError",
             result |-> <<>>]
       ELSE [requests |-> Append(sent, request), raised |-> "none",
             result |-> [estimated_cost |-> place.estimated_cost,
                         outcome |-> OutcomeOf(place.message_codes)]]

\* One call of execute_order: the requests it sends, the exception it
\* raises, the dict it returns.  random_id is the client order id drawn,
\* preview and place are the answers of the API
ExecuteOrderCall(args, random_id, preview, place) ==
    IF ValidateInputs(args) # "none"
    THEN [requests |-> <<>>, raised |-> ValidateInputs(args), result |-> <<>>]
    ELSE
    LET client_order_id == IF args.preview_result # None
                           THEN args.preview_result[1][2] ELSE random_id
        payload     == OrderPayload(args, client_order_id)
        xml_payload == DictToXml("PreviewOrderRequest", payload)
    IN IF args.preview_result = None
       THEN LET request == [url |-> "orders/preview", data |-> xml_payload] IN
            IF preview.error = "insufficient funds"
            THEN [requests |-> <<request>>, raised |-> "OrderPreviewError",
                  result |-> <<>>]
            ELSE IF preview.error # "none"
            THEN [requests |-> <<request>>, raised |-> "ApiQueryError", result |-> <<>>]
            ELSE IF /\ args.expected_cost # None
                    /\ CostOff(args.expected_cost[1], preview.estimated_cost)
            THEN [requests |-> <<request>>, raised |-> "ExpectedCostError",
                  result |-> <<>>]
            ELSE IF args.preview_only
            THEN [requests |-> <<request>>, raised |-> "none",
                  result |-> [estimated_cost |-> preview.estimated_cost,
                              preview_result |-> <<preview.preview_id, client_order_id,
                                                   xml_payload>>]]
            ELSE PlaceOrder(<<request>>, payload, preview.preview_id, place)
       ELSE IF args.preview_result[1][3] # xml_payload
            THEN [requests |-> <<>>, raised |-> "OrderPreviewError", result |-> <<>>]
            ELSE PlaceOrder(<<>>, payload, args.preview_result[1][1], place)

\* The order of a call: what the payload is built from, the preview aside
OrderOf(args, client_order_id) ==
    [symbol |-> args.symbol, order_action |-> args.order_action,
     quantity |-> args.quantity,
     lots |-> IF args.order_action = "SELL" THEN args.lots ELSE None,
     price_type |-> args.price_type, limit_price |-> args.limit_price,
     client_order_id |-> client_order_id]

\* The orders of the calls: a market sale of one lot, and orders that differ
\* from it in one respect each
EO_Order(symbol, price_type, order_action, quantity, limit_price, lots) ==
    [symbol |-> symbol, price_type |-> price_type, order_action |-> order_action,
     quantity |-> quantity, limit_price |-> limit_price, lots |-> lots]

EO_Lot(id, quantity) == [position_lot_id |-> id, quantity |-> quantity]

EO_Orders ==
    { EO_Order("A1", "MARKET", "SELL", 2, None, Some(<<EO_Lot(1, 2)>>)),
      EO_Order("B1", "MARKET", "SELL", 2, None, Some(<<EO_Lot(1, 2)>>)),
      EO_Order("A1", "MARKET", "BUY",  2, None, Some(<<EO_Lot(1, 2)>>)),
      EO_Order("A1", "MARKET", "SELL", 1, None, Some(<<EO_Lot(1, 2)>>)),
      EO_Order("A1", "MARKET", "SELL", 2, None, Some(<<EO_Lot(2, 1), EO_Lot(3, 1)>>)),
      EO_Order("A1", "MARKET", "SELL", 2, None, None),
      EO_Order("A1", "LIMIT",  "SELL", 2, None, Some(<<EO_Lot(1, 2)>>)),
      EO_Order("A1", "LIMIT",  "SELL", 2, Some(5), Some(<<EO_Lot(1, 2)>>)),
      EO_Order("A1", "MARKET", "SELL", 2, Some(5), Some(<<EO_Lot(1, 2)>>)),
      EO_Order("A1", "STOP",   "SELL", 2, None, Some(<<EO_Lot(1, 2)>>)),
      EO_Order("A1", "MARKET", "HOLD", 2, None, None) }

EO_ClientIds == {"10000001", "10000002"}

\* The calls: every order previewed only or to be placed, with no expected
\* cost, and the first order with an expected cost of 100
EO_Calls ==
    { [order |-> o, expected_cost |-> None, preview_only |-> po] :
        o \in EO_Orders, po \in BOOLEAN }
    \cup
    { [order |-> EO_Order("A1", "MARKET", "SELL", 2, None, Some(<<EO_Lot(1, 2)>>)),
       expected_cost |-> Some(100), preview_only |-> po] : po \in BOOLEAN }

\* The answers of the API to the preview request and to the place request
ApiAnswer(preview_error, estimated_cost, place_error, message_codes) ==
    [preview |-> [error |-> preview_error, estimated_cost |-> estimated_cost,
                  preview_id |-> "P1"],
     place   |-> [error |-> place_error, estimated_cost |-> estimated_cost,
                  message_codes |-> message_codes]]

ApiAnswers ==
    { ApiAnswer("none", 101, "none", {1026}),
      ApiAnswer("none", 101, "none", {1027}),
      ApiAnswer("none", 101, "none", {1042}),
      ApiAnswer("none", 101, "timed out", {}),
      ApiAnswer("none", 101, "other", {}),
      ApiAnswer("none", 103, "none", {1026}),
      ApiAnswer("insufficient funds", 0, "none", {1026}),
      ApiAnswer("other", 0, "none", {1026}) }

\* A call of execute_order, with no preview_result or with the one held
ExecuteOrder ==
    \E call \in EO_Calls,
       preview_result \in {None} \cup (IF held_preview = <<>> THEN {}
                                        ELSE {Some(held_preview)}),
       random_id \in EO_ClientIds, answer \in ApiAnswers :
    \E args \in { [symbol |-> call.order.symbol,
                    price_type |-> call.order.price_type,
                    order_action |-> call.order.order_action,
                    quantity |-> call.order.quantity,
                    expected_cost |-> call.expected_cost,
                    limit_price |-> call.order.limit_price,
                    lots |-> call.order.lots,
                    preview_only |-> call.preview_only,
                    preview_result |-> preview_result] } :
    \E r \in { ExecuteOrderCall(args, random_id, answer.preview, answer.place) } :
        LET previewed == r.raised = "none" /\ "preview_result" \in DOMAIN r.result
        IN /\ eo_args' = args
           /\ eo_requests' = r.requests
           /\ eo_raised' = r.raised
           /\ eo_result' = r.result
           /\ held_preview' = IF previewed THEN r.result.preview_result
                              ELSE held_preview
           /\ previewed_order' = IF previewed THEN OrderOf(args, random_id)
                                 ELSE previewed_order
           /\ UNCHANGED <<tpvars, accvars, parvars, runvars, rbvars>>

\* No portfolio, no account and no Rebalancer take part
InitEO == InitTP

NextEO ==
    \/ ExecuteOrder

SpecEO == InitEO /\ [][NextEO]_vars

----------------------------------------------------------------------------
(* What the claims speak of, stated apart from the operators above *)

AfterBuys  == pc \in {"identify_sells", "pass2", "pass2_loop",
                      "identify_buy_amounts", "solver_loop", "done"}
             \/ (pc = "raised" /\ raised \in {"TypeError", "KeyError",
                                               "ZeroDivisionError", "IndexError"})

AfterSells == pc \in {"identify_buy_amounts", "solver_loop", "done"}
             \/ (pc = "raised" /\ raised \in {"KeyError", "ZeroDivisionError",
                                               "IndexError"})

\* The lots marked for sale, by position_lot_id
SelectedLots ==
    UNION { { sells[s].lots[j].position_lot_id : j \in DOMAIN sells[s].lots } :
            s \in DOMAIN sells }

\* The buy securities resolved so far
BuySecurities == { buys[a].security : a \in DOMAIN buys }

\* Whether symbol s is held
Held(s) == \E i \in DOMAIN df_lots : df_lots[i].symbol = s

\* The classes the caller gave a ForcedBuy for
ForcedClasses == { forced_buys[i].assetclass : i \in DOMAIN forced_buys }

----------------------------------------------------------------------------
(* C1 *)

\* C1: no lot is ever marked for sale (in pass 1 or pass 2) whose symbol was
\* recently bought or is the buy security resolved for some asset class.
C1_NoSaleOfDoNotSell ==
    \A i \in SelectedLots :
        /\ df_lots[i].symbol \notin recent_trades.bought
        /\ df_lots[i].symbol \notin BuySecurities

\* A finished run that sold a lot while it held a losing lot of a buy
\* security it had chosen (and had not recently bought).
C1_Witness ==
    /\ pc = "done"
    /\ SelectedLots # {}
    /\ \E i \in DOMAIN df_lots :
          /\ df_lots[i].gain < 0
          /\ df_lots[i].symbol \in BuySecurities
          /\ df_lots[i].symbol \notin recent_trades.bought

----------------------------------------------------------------------------
(* C2, C3 *)

\* The active set: the target classes with a non-null resolved buy that the
\* solver optimizes over
ActiveSet == solver.I

\* The target dollar share of class c: its target percent over the sum of
\* the active classes' target percents, times T
TargetShare(c) ==
    RMul(RDiv(R(ClassNamed(target_assetclasses, c).target),
              R(SumOver(ActiveSet,
                        [a \in ActiveSet |-> ClassNamed(target_assetclasses, a).target]))),
         solver.T)

\* x_i >= ell_i, and target_buy_i = x_i - ell_i >= 0, for every active class
FloorsHold ==
    \A c \in ActiveSet :
        /\ RLe(solver.ell[c], solver.x[c])
        /\ RLe(R(0), buys[c].target_buy)
        /\ buys[c].target_buy = RSub(solver.x[c], solver.ell[c])

Deviation(c) == RSub(solver.x[c], TargetShare(c))

\* C3: on return the allocation is the minimizer of the squared deviation
\* from the target shares under x_i >= ell_i and sum x_i = T: it is feasible,
\* every class above its floor has the least deviation of all (so they
\* share one deviation c, and a class at its floor has ell_i - chi_i >= c),
\* and x_i = chi_i throughout when no floor exceeds its target share.
C3_Minimizer ==
    (pc = "done" /\ ActiveSet # {}) =>
        /\ \A c \in ActiveSet : RLe(solver.ell[c], solver.x[c])
        /\ RSumOver(ActiveSet, solver.x) = solver.T
        /\ \A c, d \in ActiveSet :
              RLt(solver.ell[c], solver.x[c]) => RLe(Deviation(c), Deviation(d))
        /\ (\A c \in ActiveSet : RLe(solver.ell[c], TargetShare(c)))
              => \A c \in ActiveSet : solver.x[c] = TargetShare(c)

\* A run that returned with one class at its floor, above its target share,
\* and two classes above their floors.
C3_Witness ==
    /\ pc = "done"
    /\ \E c \in ActiveSet :
          solver.x[c] = solver.ell[c] /\ RLt(TargetShare(c), solver.ell[c])
    /\ Cardinality({ c \in ActiveSet : RLt(solver.ell[c], solver.x[c]) }) = 2

----------------------------------------------------------------------------
(* C4 *)

\* C4 as stated: the buy resolved for any class is never a recently sold
\* security, whatever forced buys were given.
C4_Original ==
    AfterBuys => \A a \in DOMAIN buys : buys[a].security \notin recent_trades.sold

\* C4, amended: the buy resolved for a class that has no ForcedBuy is never
\* a recently sold security.
C4_NoRecentlySoldBuy ==
    AfterBuys =>
        \A a \in DOMAIN buys :
            a \notin ForcedClasses => buys[a].security \notin recent_trades.sold

\* The buys are resolved, without forced buys, while a badness-1 security
\* that is not held (zero loss) was recently sold.
C4_Witness ==
    /\ AfterBuys
    /\ forced_buys = <<>>
    /\ \E i \in DOMAIN target_assetclasses :
          \E s \in Range(Securities(target_assetclasses[i], 1)) :
              s \in recent_trades.sold /\ ~Held(s)

----------------------------------------------------------------------------
(* C5 *)

\* The target percentages of the asset classes sum to exactly 100
TargetsSumTo100 ==
    SumOver(DOMAIN target_assetclasses,
            [i \in DOMAIN target_assetclasses |-> target_assetclasses[i].target]) = 100

\* Some symbol belongs to two different asset classes
SharedSecurity ==
    \E i, j \in DOMAIN target_assetclasses :
        /\ i # j
        /\ \E k \in DOMAIN target_assetclasses[i].securities :
           \E l \in DOMAIN target_assetclasses[j].securities :
               target_assetclasses[i].securities[k] = target_assetclasses[j].securities[l]

\* C5: a validated TargetPortfolio has targets that sum to exactly 100 and
\* no symbol in two asset classes; a call of validate() on a portfolio that
\* breaks either condition raises and leaves the portfolio unvalidated.
C5_ValidatedPortfolio ==
    /\ validated => (TargetsSumTo100 /\ ~SharedSecurity)
    /\ (tp_call = "validate" /\ (~TargetsSumTo100 \/ SharedSecurity))
          => (tp_raised # "ok" /\ ~validated)

\* validate() has succeeded on a portfolio of two asset classes, one of them
\* declared with a lower-case ticker.
C5_Witness ==
    /\ validated
    /\ tp_call = "validate"
    /\ tp_raised = "ok"
    /\ Len(target_assetclasses) = 2
    /\ \E i \in DOMAIN target_assetclasses :
          target_assetclasses[i].securities = <<"A1", "B1">>

----------------------------------------------------------------------------
(* C6, C7, C8 *)

\* The loss value of symbol s: 0 when recently bought or not held, else the
\* sum of the negative gains of its lots
LossValue(s) ==
    IF s \in recent_trades.bought \/ ~Held(s) THEN 0
    ELSE SumOver({ i \in DOMAIN df_lots : df_lots[i].symbol = s /\ df_lots[i].gain < 0 },
                 [i \in DOMAIN df_lots |-> df_lots[i].gain])

\* The candidates of tier b of class a: its securities of badness b that were
\* not recently sold, by their place in the declared order
Candidates(a, b) ==
    { k \in DOMAIN a.securities :
        a.badness_scores[k] = b /\ a.securities[k] \notin recent_trades.sold }

\* The acceptable candidates of tier b of class a
Acceptable(a, b) ==
    { k \in Candidates(a, b) : Abs(LossValue(a.securities[k])) <= MAX_LOSS_TO_FORGO }

Tiers(a) == Range(a.badness_scores) \ {NoBadness}

\* The classes without a ForcedBuy that no tier can resolve
Unresolvable ==
    { i \in DOMAIN target_assetclasses :
        /\ target_assetclasses[i].name \notin ForcedClasses
        /\ \A b \in Tiers(target_assetclasses[i]) :
              Acceptable(target_assetclasses[i], b) = {} }

\* C6: when some class without a ForcedBuy has no acceptable candidate in any
\* tier, the run never gets past the Buy Selector: it produces no buys, no
\* sells, no price lookup and no allocation, and the failure it ends in is
\* a RebalancerError.
C6_UnresolvableFails ==
    Unresolvable # {} =>
        /\ pc \in {"init", "identify_buys", "raised"}
        /\ buys = <<>>
        /\ sells = <<>>
        /\ price_lookups = {}
        /\ solver = IdleSolver
        /\ ~optimized
        /\ pc = "raised" => raised = "RebalancerError"

\* A run without forced buys has failed in the Buy Selector while one class
\* could be resolved and another could not.
C6_Witness ==
    /\ forced_buys = <<>>
    /\ pc = "raised"
    /\ raised = "RebalancerError"
    /\ Unresolvable # {}
    /\ Unresolvable # DOMAIN target_assetclasses

\* The place in class a's declared order of the buy chosen for it
ChosenIndex(a) ==
    CHOOSE k \in DOMAIN a.securities : a.securities[k] = buys[a.name].security

\* The classes the Buy Selector chose for
SelectorClasses ==
    { i \in DOMAIN target_assetclasses :
        target_assetclasses[i].name \notin ForcedClasses }

\* C7: for a class with no ForcedBuy the chosen buy is an acceptable
\* candidate (not recently sold, |loss| <= MAX_LOSS_TO_FORGO, loss 0 when
\* recently bought or not held) of the lowest tier that has one, and no
\* candidate of that tier has a loss closer to zero.
C7_LowestAcceptableTier ==
    AfterBuys =>
        \A i \in SelectorClasses :
            LET a == target_assetclasses[i]
                b == buys[a.name].badness
            IN /\ \E k \in Acceptable(a, b) : a.securities[k] = buys[a.name].security
               /\ \A c \in Tiers(a) : c < b => Acceptable(a, c) = {}
               /\ \A k \in Candidates(a, b) :
                     LossValue(a.securities[k]) <= LossValue(buys[a.name].security)

\* The two badness-1 securities of a class both have losses beyond
\* MAX_LOSS_TO_FORGO and the class buys its badness-2 security.
C7_Witness ==
    /\ AfterBuys
    /\ \E i \in SelectorClasses :
          LET a == target_assetclasses[i] IN
          /\ Cardinality(Candidates(a, 1)) = 2
          /\ \A k \in Candidates(a, 1) : LossValue(a.securities[k]) < 0
          /\ Acceptable(a, 1) = {}
          /\ buys[a.name].badness = 2

\* C8: among the candidates of the chosen tier whose loss equals that of the
\* chosen buy, the chosen buy is the first in the class's declared order.
C8_FirstDeclaredOnTie ==
    AfterBuys =>
        \A i \in SelectorClasses :
            LET a == target_assetclasses[i] IN
            \A k \in Candidates(a, buys[a.name].badness) :
                LossValue(a.securities[k]) = LossValue(buys[a.name].security)
                    => ChosenIndex(a) <= k

\* Two held candidates of one tier tie on a loss that is not zero, and the
\* one declared first is the buy.
C8_Witness ==
    /\ AfterBuys
    /\ \E i \in SelectorClasses :
          LET a == target_assetclasses[i] IN
          \E k \in Candidates(a, buys[a.name].badness) :
              /\ k > ChosenIndex(a)
              /\ LossValue(a.securities[k]) = LossValue(buys[a.name].security)
              /\ LossValue(a.securities[k]) < 0

----------------------------------------------------------------------------
(* C9, C10 *)

\* The lots of symbol s with a gain above zero
WinningLots(s) == { i \in DOMAIN df_lots : df_lots[i].symbol = s /\ df_lots[i].gain > 0 }

\* The winning lots of s that the final sells hold
SoldWinningLots(s) == WinningLots(s) \cap SelectedLots

GainOf(S) == SumOver(S, [i \in DOMAIN df_lots |-> df_lots[i].gain])

\* The securities pass 2 harvests gains of: not in do_not_sell, and either
\* outside the target portfolio, or in a class that buys and of no badness
\* or of a badness above that of the class's buy
GainHarvestEligible ==
    { s \in Range(Positions(df_lots)) :
        /\ s \notin recent_trades.bought \cup BuySecurities
        /\ \/ \A i \in DOMAIN target_assetclasses :
                 s \notin Range(target_assetclasses[i].securities)
           \/ \E i \in DOMAIN target_assetclasses :
              \E k \in DOMAIN target_assetclasses[i].securities :
                 LET a == target_assetclasses[i] IN
                 /\ a.securities[k] = s
                 /\ buys[a.name].security # NONE
                 /\ \/ a.badness_scores[k] = NoBadness
                    \/ /\ buys[a.name].badness # NoBadness
                       /\ a.badness_scores[k] > buys[a.name].badness }

\* C9: for every gain-harvest-eligible security the winning lots sold are a
\* prefix of its winning lots in ascending order of gain, the shortest one
\* whose cumulative gain is >= MAX_GAIN_TO_SELL: all the winning lots are
\* sold or the gain sold is >= MAX_GAIN_TO_SELL, and the gain sold without
\* the last lot is < MAX_GAIN_TO_SELL.
C9_ShortestPrefixReachingMax ==
    AfterSells =>
        \A s \in GainHarvestEligible :
            LET W == SoldWinningLots(s) IN
            /\ \A i \in W : \A j \in WinningLots(s) \ W :
                  df_lots[i].gain <= df_lots[j].gain
            /\ W = WinningLots(s) \/ GainOf(W) >= MAX_GAIN_TO_SELL
            /\ \A i \in W :
                  (\A j \in W : df_lots[j].gain <= df_lots[i].gain)
                      => GainOf(W \ {i}) < MAX_GAIN_TO_SELL

\* C10: every lot with a loss whose symbol was not recently bought and is no
\* class's buy is in the final sells, with its full quantity.
C10_LosingLotsSold ==
    AfterSells =>
        \A i \in DOMAIN df_lots :
            (/\ df_lots[i].gain < 0
             /\ df_lots[i].symbol \notin recent_trades.bought \cup BuySecurities)
            => /\ df_lots[i].symbol \in DOMAIN sells
               /\ \E j \in DOMAIN sells[df_lots[i].symbol].lots :
                     sells[df_lots[i].symbol].lots[j] =
                         [position_lot_id |-> i, quantity |-> df_lots[i].quantity]

\* The final sells hold a losing lot of a security of the target portfolio
\* whose loss is within MAX_LOSS_TO_FORGO.
C10_Witness ==
    /\ AfterSells
    /\ \E i \in SelectedLots :
          /\ df_lots[i].gain < 0
          /\ -df_lots[i].gain <= MAX_LOSS_TO_FORGO
          /\ \E k \in DOMAIN target_assetclasses :
                df_lots[i].symbol \in Range(target_assetclasses[k].securities)

----------------------------------------------------------------------------
(* C11 *)

\* C11: a lot with gain > 0 is marked for sale only if its security is not
\* in do_not_sell and is unclassified, or is of a class with a non-null buy
\* and has no badness or a badness above that of the class's buy; so no
\* winning lot is sold of a security of a skipped class or of a badness at or
\* below the buy's.
C11_WinningLotsOnlyOfEligible ==
    \A i \in SelectedLots :
        df_lots[i].gain > 0 => df_lots[i].symbol \in GainHarvestEligible

\* The sells are final: a winning lot of a badness-2 security of the target
\* portfolio is sold, and a winning lot of an unclassified security that
\* was recently bought is kept.
C11_Witness ==
    /\ AfterSells
    /\ \E i \in SelectedLots :
          /\ df_lots[i].gain > 0
          /\ \E k \in DOMAIN target_assetclasses :
                df_lots[i].symbol \in Range(Securities(target_assetclasses[k], 2))
    /\ \E j \in DOMAIN df_lots \ SelectedLots :
          /\ df_lots[j].gain > 0
          /\ df_lots[j].symbol \in recent_trades.bought

----------------------------------------------------------------------------
(* C12 *)

\* C12: the while loop of pass 2 ends, for every eligible security, after at
\* most as many passes as the security has winning lots: while the loop runs
\* the count of passes made is below the number of winning lots or, for a
\* security without any, the loop makes no pass at all.
C12_LoopBoundedByWinningLots ==
    pc = "pass2_loop" =>
        /\ lots_to_sell <= Len(gaining_lots)
        /\ lots_to_sell = Len(gaining_lots) => ~Pass2LoopTest

----------------------------------------------------------------------------
(* C13 *)

\* The solver run again on the same rows, targets and T, with the allocation
\* it returned as the floors of the active classes
SolvedAgain ==
    Solve(FirstGuess(solver.rows, solver.I, solver.N, solver.T, solver.chi,
                     [c \in solver.rows |->
                         IF c \in solver.I THEN solver.x[c] ELSE solver.ell[c]]))

\* C13: the solver run again on the same targets and T, with its own output
\* as the floors of the active classes, returns the same allocation.
C13_SolverIdempotent ==
    pc = "done" =>
        /\ SolvedAgain.I = ActiveSet
        /\ \A c \in ActiveSet : SolvedAgain.x[c] = solver.x[c]

\* A run that clamped a class returned, and the second run has to clamp too.
C13_Witness ==
    /\ pc = "done"
    /\ solver.i >= 1
    /\ SolvedAgain.i >= 1
    /\ Cardinality(ActiveSet) = 3

----------------------------------------------------------------------------
(* C14 *)

\* The target asset classes with a resolved buy that is not null
ResolvedClasses ==
    { a \in DOMAIN buys : buys[a].security # NONE }

\* C14: the active set of the solver is the set of the target asset classes
\* with a resolved non-null buy, held or not (a class without holdings has
\* floor 0), each of them receives a target_buy, and the allocation does
\* not fail for want of holdings.
C14_ActiveSetIsEveryResolvedClass ==
    /\ pc = "done" =>
          /\ ActiveSet = ResolvedClasses
          /\ \A a \in ResolvedClasses : "target_buy" \in DOMAIN buys[a]
          /\ \A a \in ResolvedClasses :
                (\A i \in DOMAIN df_lots : ClassOf(df_lots[i].symbol) # a)
                    => solver.ell[a] = R(0)
    /\ ~(pc = "raised" /\ raised \in {"KeyError", "ZeroDivisionError"})

----------------------------------------------------------------------------
(* C15 *)

\* The active classes whose floor is at or above their target share
AtOrAboveShare == { c \in ActiveSet : RLe(TargetShare(c), solver.ell[c]) }

\* C15: every active class whose floor is at or above its target share ends
\* at its floor with a target_buy of 0, and what there is to distribute,
\* T less the floors, goes to the other active classes alone; floors 9,000
\* and 0 with targets 60/40 and T = 10,000 give x = (9,000, 1,000).
C15_ClampedAtFloor ==
    (pc = "done" /\ ActiveSet # {}) =>
        /\ \A c \in AtOrAboveShare :
              /\ solver.x[c] = solver.ell[c]
              /\ buys[c].target_buy = R(0)
        /\ RSumOver(ActiveSet \ AtOrAboveShare,
                    [c \in ActiveSet |-> buys[c].target_buy])
              = RSub(solver.T, RSumOver(ActiveSet, solver.ell))
        /\ (/\ ActiveSet = {"A", "B"}
            /\ solver.ell["A"] = R(9000) /\ solver.ell["B"] = R(0)
            /\ solver.T = R(10000)
            /\ TargetPerc("A") = 60 /\ TargetPerc("B") = 40)
              => (solver.x["A"] = R(9000) /\ solver.x["B"] = R(1000))

\* The run on floors 9,000 and 0, targets 60/40 and T = 10,000 has returned.
C15_Witness ==
    /\ pc = "done"
    /\ ActiveSet = {"A", "B"}
    /\ solver.ell["A"] = R(9000) /\ solver.ell["B"] = R(0)
    /\ solver.T = R(10000)
    /\ TargetShare("A") = R(6000)
    /\ "A" \in AtOrAboveShare
    /\ solver.i = 1

----------------------------------------------------------------------------
(* C16 *)

\* C16: for every class with a resolved buy security in the table,
\* buy_quantity is the non-negative integer floor(target_buy / current_price)
\* and expected_buy = buy_quantity * current_price is at most target_buy and
\* less than one current_price below it.
C16_BuyQuantityIsFloor ==
    pc = "done" =>
        \A a \in ActiveSet :
            LET q  == BuyQuantity(a)
                p  == buys[a].current_price
                tb == buys[a].target_buy
            IN /\ HasBuyQuantity(a)
               /\ q \in Nat
               /\ RLe(R(q * p), tb) /\ RLt(tb, R((q + 1) * p))
               /\ ExpectedBuy(a) = q * p
               /\ RLe(R(0), RSub(tb, R(ExpectedBuy(a))))
               /\ RLt(RSub(tb, R(ExpectedBuy(a))), R(p))

\* A class buys at least one unit and its target_buy is not a whole number
\* of units: more than half a unit is left over.
C16_Witness ==
    /\ pc = "done"
    /\ \E a \in ActiveSet :
          /\ BuyQuantity(a) >= 1
          /\ RLt(R(2 * ExpectedBuy(a) + buys[a].current_price),
                 RMul(R(2), buys[a].target_buy))

----------------------------------------------------------------------------
(* C17 *)

\* C17: once validate() has succeeded the portfolio stays validated, every
\* later add_assetclass call fails and the asset classes never change; and a
\* read of the asset classes (target_assetclasses, find_security) on a
\* portfolio that is not validated fails and returns nothing.
C17_FrozenOnceValidated ==
    [][ /\ validated =>
             /\ validated'
             /\ target_assetclasses' = target_assetclasses
             /\ tp_call' = "add_assetclass" => tp_raised' = "AssertionError"
        /\ (~validated /\ tp_call' \in {"target_assetclasses", "find_security"})
             => (tp_raised' = "AssertionError" /\ tp_result' = <<>>)
      ]_vars

\* add_assetclass was called on a validated portfolio with arguments that
\* make a new asset class, and it failed.
C17_Witness ==
    /\ validated
    /\ tp_call = "add_assetclass"
    /\ tp_raised = "AssertionError"
    /\ Len(target_assetclasses) = 2

----------------------------------------------------------------------------
(* C18 *)

\* C18 as stated: validate() succeeds at most once on a TargetPortfolio; a
\* call on a portfolio that is validated already fails.
C18_Original == validations <= 1

\* C18, amended: a call of validate() on a portfolio that is validated
\* already is allowed: it succeeds again and leaves the portfolio validated
\* and its asset classes as they were.
C18_ValidateAgainSucceeds ==
    [][ (validated /\ tp_call' = "validate")
          => /\ tp_raised' = "ok"
             /\ validated'
             /\ validations' = validations + 1
             /\ target_assetclasses' = target_assetclasses
      ]_vars

\* validate() has succeeded twice on one portfolio.
C18_Witness ==
    /\ validations = 2
    /\ validated
    /\ tp_call = "validate"
    /\ tp_raised = "ok"

----------------------------------------------------------------------------
(* C19 *)

\* An asset class as C19 describes it, but for its badness values
WellFormedButBadness(a) ==
    /\ a.target \in 1..100
    /\ a.name \notin {OTHER_NAME, CASH_NAME}
    /\ Len(a.badness_scores) = Len(a.securities)

\* The badness values are all positive integers, include 1 and their
\* distinct values are 1, 2, ... without a gap
BadnessAllPositive(a) ==
    /\ \A k \in DOMAIN a.badness_scores : a.badness_scores[k] >= 1
    /\ \E k \in DOMAIN a.badness_scores : a.badness_scores[k] = 1
    /\ \A k \in DOMAIN a.badness_scores :
          \A b \in 1..a.badness_scores[k] : b \in Range(a.badness_scores)

\* The badness values are each null or a positive integer; those that are
\* not null include 1 and their distinct values are 1, 2, ... without a gap
BadnessPositiveOrNull(a) ==
    /\ \A k \in DOMAIN a.badness_scores :
          a.badness_scores[k] = NoBadness \/ a.badness_scores[k] >= 1
    /\ \E k \in DOMAIN a.badness_scores : a.badness_scores[k] = 1
    /\ \A k \in DOMAIN a.badness_scores :
          \A b \in 1..a.badness_scores[k] : b \in Range(a.badness_scores)

NamesDiffer ==
    \A i, j \in DOMAIN target_assetclasses :
        i # j => target_assetclasses[i].name # target_assetclasses[j].name

----------------------------------------------------------------------------
(* C20 *)

\* The dict __init__ makes of a caller's entry: a pinned ticker with the
\* badness find_security reports for it, or the null security
Rewritten(ticker) ==
    IF ticker = NONE
    THEN [security |-> NONE, badness |-> NoBadness]
    ELSE [security |-> ticker,
          badness  |-> FindSecurity(target_assetclasses, ticker).badness]

\* The classes whose ForcedBuy is a skip
SkippedClasses ==
    { a \in ForcedClasses \cap DOMAIN buys : buys[a].security = NONE }

\* C20: a ForcedBuy pinned to security s is rewritten to s with the badness
\* the target portfolio reports for s, and the buy resolved for its class is
\* that entry, with no look at tiers, losses or MAX_LOSS_TO_FORGO; a skip
\* ForcedBuy is rewritten to the null security, its class resolves to the
\* null security and no price is fetched for it; neither is changed
\* afterwards.  At the end of the run the target_buy of a skipped class is
\* 0 and no buy order is placed for the class.
C20_ForcedBuyTaken ==
    /\ [][ (pc = "init" /\ pc' = "identify_buys") =>
              \A i \in DOMAIN forced_buys :
                  forced_buys'[i].value = Rewritten(forced_buys[i].value.ticker) ]_vars
    /\ [][ (pc = "identify_buys" /\ pc' = "identify_sells") =>
              \A i \in DOMAIN forced_buys :
                  LET a == forced_buys[i].assetclass
                      v == forced_buys[i].value
                  IN /\ buys'[a].security = v.security
                     /\ buys'[a].badness = v.badness
                     /\ v.security = NONE =>
                           /\ "current_price" \notin DOMAIN buys'[a]
                           /\ price_lookups' =
                                 { buys'[b].security :
                                     b \in { c \in DOMAIN buys' :
                                               buys'[c].security # NONE } } ]_vars
    /\ [][ AfterBuys =>
              /\ price_lookups' = price_lookups
              /\ \A a \in ForcedClasses :
                    /\ buys'[a].security = buys[a].security
                    /\ buys'[a].badness = buys[a].badness
                    /\ "current_price" \in DOMAIN buys'[a]
                          <=> "current_price" \in DOMAIN buys[a] ]_vars
    /\ [](pc = "done" =>
              \A a \in SkippedClasses :
                  /\ "target_buy" \in DOMAIN buys[a] => buys[a].target_buy = R(0)
                  /\ a \notin BuyOrders)

\* A run has ended with one class skipped, which holds a position and has
\* the target_buy 0, and one class pinned to a security the Buy Selector
\* would not have chosen, for which a buy order is placed
C20_Witness ==
    /\ pc = "done"
    /\ \E a \in SkippedClasses :
          /\ a \in TargetRows
          /\ buys[a].target_buy = R(0)
    /\ \E b \in ForcedClasses \ SkippedClasses :
          /\ FindBuyFrom(ClassNamed(target_assetclasses, b), 1).security
                # buys[b].security
          /\ b \in BuyOrders

----------------------------------------------------------------------------
(* C21 *)

\* Some ForcedBuy names a class the target portfolio does not have, or pins
\* a security that find_security places in another class (or in none)
InvalidForced ==
    \E i \in DOMAIN forced_buys :
        \/ forced_buys[i].assetclass \notin ClassNames(target_assetclasses)
        \/ /\ forced_buys[i].value.ticker # NONE
           /\ FindSecurity(target_assetclasses, forced_buys[i].value.ticker).assetclass
                 # forced_buys[i].assetclass

----------------------------------------------------------------------------
(* C22 *)

\* C22: no step of the constructor changes what it was given: the caller's
\* forced_buys dict, the target portfolio, and the lots, recent trades and
\* cash of the account stay as they were, so that a second run on the same
\* objects starts from the same inputs.
C22_InputsAreReadOnly ==
    [][ /\ forced_buys' = forced_buys
        /\ target_assetclasses' = target_assetclasses
        /\ validated' = validated
        /\ df_lots' = df_lots
        /\ recent_trades' = recent_trades
        /\ cash' = cash ]_vars

----------------------------------------------------------------------------
(* C23 *)

\* The securities a SELL order has been sent for, and those whose order
\* came back PLACED
SellsAttempted ==
    { orders[i].symbol : i \in { j \in DOMAIN orders : orders[j].order_action = "SELL" } }

SellsPlaced ==
    { orders[i].symbol :
        i \in { j \in DOMAIN orders : /\ orders[j].order_action = "SELL"
                                       /\ orders[j].outcome = "PLACED" } }

BuysSent == { i \in DOMAIN orders : orders[i].order_action = "BUY" }

RebalanceEnded == rb_pc \in {"returned", "raised"}

\* C23: a buy order is sent only when a sell order has been sent for every
\* security of the sell decisions and each came back PLACED; when rebalance()
\* has ended and some sell raised an error or came back with another
\* outcome than PLACED, a sell order was sent for every security all the
\* same, RebalancerError was raised and no buy order was sent; and no order
\* is sent when the market is closed or the answer is not 'yes'.
C23_BuysOnlyAfterAllSellsPlaced ==
    /\ BuysSent # {} => SellsPlaced = DOMAIN sells
    /\ (RebalanceEnded /\ SellsPlaced # SellsAttempted) =>
          /\ SellsAttempted = DOMAIN sells
          /\ rb_raised = "RebalancerError"
          /\ BuysSent = {}
    /\ (RebalanceEnded /\ rb_i = 0) => orders = <<>>

----------------------------------------------------------------------------
(* C24 *)

\* C24: in the clamping loop the clamped set only grows: a class that is in
\* J after one pass of the loop is in J after every later pass, and it sits
\* at its floor (x_i = ell_i) after every pass from then on and in the
\* result.
C24_ClampedSetOnlyGrows ==
    /\ [][ (pc = "solver_loop" /\ pc' = "solver_loop") =>
              solver.J \subseteq solver'.J ]_vars
    /\ [](pc \in {"solver_loop", "done"} =>
              \A c \in solver.J : solver.x[c] = solver.ell[c])

\* The loop has run twice and clamped two classes, one of them in its
\* second pass only
C24_Witness ==
    /\ pc = "solver_loop"
    /\ solver.i = 2
    /\ Cardinality(solver.J) = 2
    /\ \E c \in solver.J : ~RLe(FirstGuess(solver.rows, solver.I, solver.N,
                                            solver.T, solver.chi, solver.ell).x[c],
                                 solver.ell[c])

----------------------------------------------------------------------------
(* C25 *)

----------------------------------------------------------------------------
(* C26 *)

\* execute_order has been called
Called == eo_args # <<>>

\* The call sent a place-order request
PlaceSent == \E i \in DOMAIN eo_requests : eo_requests[i].url = "orders/place"

\* The order the call builds is the order the preview it was given was
\* obtained for
SameOrderAsPreviewed ==
    OrderOf(eo_args, eo_args.preview_result[1][2]) = previewed_order

\* C26: a call with a preview_result sends a place-order request only if the
\* order it builds (symbol, action, quantity, lots, price type, limit price,
\* client order id) is the order the preview was obtained for; if it is
\* another order (and the arguments are valid) the call raises
\* OrderPreviewError and sends no place-order request; and a call with
\* preview_only = True never sends a place-order request.
C26_PlaceOnlyWhatWasPreviewed ==
    Called =>
        /\ (eo_args.preview_result # None /\ PlaceSent) => SameOrderAsPreviewed
        /\ ( /\ eo_args.preview_result # None
             /\ ValidateInputs(eo_args) = "none"
             /\ ~SameOrderAsPreviewed ) =>
                 eo_raised = "OrderPreviewError" /\ ~PlaceSent
        /\ eo_args.preview_only => ~PlaceSent

----------------------------------------------------------------------------
(* C27 *)

\* C27: a LIMIT order without a limit_price is rejected with ValidationError
\* before any request is sent, and a LIMIT order with a limit_price is not
\* rejected for its limit price.
C27_LimitOrderNeedsLimitPrice ==
    (Called /\ eo_args.price_type = "LIMIT"
            /\ eo_args.order_action \in {"BUY", "SELL"}) =>
        /\ eo_args.limit_price = None =>
              eo_raised = "ValidationError" /\ eo_requests = <<>>
        /\ ( /\ eo_args.limit_price # None
             /\ ~( /\ eo_args.order_action = "SELL"
                   /\ eo_args.lots # None
                   /\ eo_args.quantity # LotsQuantity(eo_args.lots[1]) ) ) =>
              eo_raised # "ValidationError"

----------------------------------------------------------------------------
(* C28 *)

\* The estimated proceeds of every security sold, and the free cash
ProceedsAndCash ==
    SumOver(DOMAIN sells, [s \in DOMAIN sells |-> sells[s].estimated_proceeds]) + cash

\* df.expected_buy.sum(): over the rows that have a buy_quantity
TotalExpectedBuy ==
    LET rows == { a \in TargetRows : HasBuyQuantity(a) }
    IN SumOver(rows, [a \in rows |-> ExpectedBuy(a)])

TotalTargetBuy ==
    RSumOver(ActiveSet, [a \in ActiveSet |-> buys[a].target_buy])

----------------------------------------------------------------------------
(* C29 *)

\* C29: when one class or more is skipped by a ForcedBuy, the allocation
\* still completes: it does not fail in the clamping loop, nor afterwards
\* for want of a priced buy when every class is skipped; each skipped class
\* gets the target_buy 0, and the remaining classes have x_i >= ell_i and
\* their x_i sum to T.
C29_SolverCompletesWithSkippedClasses ==
    SkippedClasses # {} =>
        /\ ~(pc = "raised" /\ raised = "IndexError")
        /\ ~(pc = "raised" /\ raised = "KeyError" /\ optimized)
        /\ pc = "done" =>
              /\ \A a \in SkippedClasses \cap TargetRows : buys[a].target_buy = R(0)
              /\ FloorsHold
              /\ ActiveSet # {} => RSumOver(ActiveSet, solver.x) = solver.T

----------------------------------------------------------------------------
(* C30 *)

\* C30: pass 2 of _identify_sells decides for every position held whether
\* its gains are to be harvested and never fails on the comparison of the
\* position's badness with the badness of the buy chosen for its class,
\* whatever forced buys the constructor has accepted.
C30_Pass2NeverFails ==
    \A i \in DOMAIN Positions(df_lots) :
        ~( /\ pc = "raised"
           /\ raised = "TypeError"
           /\ pos_i = i
           /\ Pass2Raises(Positions(df_lots)[i]) )

=============================================================================
